---- MODULE Spec2Model ----
(***************************************************************************)
(* Verification model of AxisAutoConfig.                                   *)
(*                                                                         *)
(* Part 1: the custom DHCP server (core/dhcp_manager.py) and the worker    *)
(* thread that runs it (workers/unified_worker.py, DHCPWorker).            *)
(*                                                                         *)
(*   Spec        the DHCPManager object: configure, binding the endpoint,  *)
(*               the two handlers (_handle_dhcp_discover,                  *)
(*               _handle_dhcp_request) and the clock.  configure runs on   *)
(*               the caller's thread without the lock: it and the DISCOVER *)
(*               handler are followed statement by statement.              *)
(*   SpecPacket  the packet path on a configured, bound manager: datagrams *)
(*               through _process_dhcp_packet, and the two handlers.       *)
(*   SpecServer  the server thread (DHCPWorker.run -> DHCPManager.start)   *)
(*               interleaved with the caller's DHCPWorker.stop, with weak  *)
(*               fairness on both threads.                                 *)
(*                                                                         *)
(* Addresses are modelled by their 32-bit integer form (the form           *)
(* _generate_ip_pool iterates over), hardware addresses by small integers, *)
(* the lease dict by the set of its (key, value) items.                    *)
(***************************************************************************)
EXTENDS Integers, Sequences, FiniteSets, TLC

\* ------------------------------------------------------------------ bounds
MaxIp == 3          \* addresses are 1..MaxIp
NumMacs == 2        \* hardware addresses are 1..NumMacs
MaxTime == 3        \* the clock runs over 0..MaxTime

Ips == 1..MaxIp
Macs == 1..NumMacs
Xids == {1, 2}       \* transaction ids of the messages handled
LeaseTimes == {2}    \* lease times configure is called with
ServerIps == {1}     \* server addresses configure is called with

\* ------------------------------------------------- constants of the program
NoIp == 0                \* server_ip / start_ip / end_ip = None
DefaultLeaseTime == 3600
DHCPDISCOVER == 1
DHCPOFFER == 2
DHCPREQUEST == 3
DHCPDECLINE == 4
DHCPACK == 5
DHCPRELEASE == 7
OptMsgType == 53
OptPad == 0
OptEnd == 255

VARIABLES
    now,            \* time.time()
    interface,      \* self.interface ("None" until configured)
    server_ip,      \* self.server_ip
    lease_time,     \* self.lease_time
    leases,         \* self.leases, as the set of its items [mac, ip, exp]
    available_ips,  \* self.available_ips, a list
    server_socket,  \* self.server_socket: "none", "open" or "closed"
    is_running,     \* self.is_running
    out,            \* the replies the last operation put on the wire
    last,           \* the last operation and its input
    should_stop,    \* DHCPWorker._should_stop
    stop_event,     \* the value bound to start()'s parameter stop_event
    tpc,            \* position of the server thread
    spc,            \* position of the caller inside DHCPWorker.stop
    configuring,    \* the caller inside configure: its position, the range
                    \* it was given and _generate_ip_pool's ip_int
    pending,        \* the server thread inside _handle_dhcp_discover: its
                    \* position and the handler's offer_ip, chaddr and xid
    cameras,        \* ConfigurationWorker.cameras, the discovered devices
    config_params,  \* ConfigurationWorker.config_params
    cw_should_stop, \* ConfigurationWorker._should_stop
    results,        \* ConfigurationWorker.results
    wpc,            \* position of the worker inside ConfigurationWorker.run
    cam_idx,        \* run's loop variable i, counted from 1
    sequential_ip_index,  \* run's local of that name
    final_ip,       \* run's local of that name
    camera_result,  \* run's local of that name: the record being filled
    calls,          \* per camera, the steps executed so far with their outcome
    failures,       \* how many device operations have failed so far
    emitted,        \* how often configuration_complete was emitted
    call,           \* the CameraOperations method being executed, with its arguments
    cpc,            \* position inside that method
    attempt,        \* the retry loop's variable of that name
    prefix_length,  \* _set_ip_using_json_api's local of that name
    result,         \* get_camera_mac_serial's local of that name: the keys of
                    \* the dict it is filling
    sent,           \* the HTTP requests issued by the method so far, with their answers
    ret,            \* the pair the method returned
    wait_args,      \* wait_for_camera_online's max_wait_time and check_interval
    wtpc,           \* position inside wait_for_camera_online
    start_time,     \* its local of that name
    elapsed,        \* its local of that name
    polls,          \* the rounds of its loop so far, with what each probe gave
    wait_ret        \* the pair it returned

\* self.start_ip and self.end_ip are written by configure and read only by
\* the _generate_ip_pool call inside it; they are its parameters here.
mgrVars == <<interface, server_ip, lease_time, configuring>>
tableVars == <<leases, available_ips>>
sockVars == <<server_socket, is_running>>
threadVars == <<should_stop, stop_event, tpc, spc, pending>>
cwVars == <<cameras, config_params, cw_should_stop, results>>
runVars == <<wpc, cam_idx, sequential_ip_index, final_ip, camera_result>>
envVars == <<calls, failures, emitted>>
orchVars == <<cwVars, runVars, envVars>>
opVars == <<call, cpc, attempt, prefix_length, result, sent, ret>>
waitVars == <<wait_args, wtpc, start_time, elapsed, polls, wait_ret>>
vars == <<now, mgrVars, tableVars, sockVars, out, last, threadVars, orchVars,
          opVars, waitVars>>

\* ------------------------------------------------------------ list helpers
Range(s) == {s[i] : i \in DOMAIN s}

Min(a, b) == IF a < b THEN a ELSE b

\* list.remove(x): drops the first occurrence of x
ListRemove(list, x) ==
    LET i == CHOOSE k \in DOMAIN list :
                 list[k] = x /\ \A j \in 1..(k - 1) : list[j] # x
    IN  SubSeq(list, 1, i - 1) \o SubSeq(list, i + 1, Len(list))

\* ------------------------------------------------------- the lease dict
\* chaddr in self.leases
LeaseHas(L, mac) == \E e \in L : e.mac = mac

\* self.leases[chaddr]
LeaseGet(L, mac) == CHOOSE e \in L : e.mac = mac

\* A dict assignment that kept the old item beside the new one.
LeaseStoreKeepOld(L, mac, ip, exp) ==
    L \cup {[mac |-> mac, ip |-> ip, exp |-> exp]}

\* self.leases[chaddr] = (ip, exp): the item for the key is replaced
LeaseStore(L, mac, ip, exp) ==
    {e \in L : e.mac # mac} \cup {[mac |-> mac, ip |-> ip, exp |-> exp]}

\* a lease is active when now < expiry
Active(e, t) == t < e.exp

\* ------------------------------------------------------------ address pool
\* _generate_ip_pool: the addresses start..end ascending, the server's own
\* address left out; the list is emptied first, so a bad range leaves it empty
GenerateIpPool(start, end, server) ==
    IF start > end
    THEN <<>>
    ELSE SelectSeq([i \in 1..(end - start + 1) |-> start + i - 1],
                   LAMBDA ip : ip # server)

\* ------------------------------------------------------ Python values
\* Option values are bytes objects, the message-type constants are ints.
PyInt(n) == [ty |-> "int", val |-> n]
PyBytes(b) == [ty |-> "bytes", val |-> b]

\* Python's ==: a bytes object and an int are never equal
PyEq(a, b) == a.ty = b.ty /\ a.val = b.val

\* ------------------------------------------------------------ packet codec
\* A datagram (8 is INFORM, for which the program has no name): whether it has the 240 fixed bytes, whether bytes 236..239
\* are the magic cookie, xid (bytes 4..7), chaddr (bytes 28..28+hlen) and
\* the bytes from offset 240 on.
Trailers ==
    {<<OptMsgType, 1, t, OptEnd>> :
         t \in {DHCPDISCOVER, DHCPREQUEST, DHCPDECLINE, DHCPRELEASE, 8}}
    \cup {<<OptPad, OptMsgType, 1, DHCPDISCOVER, OptEnd>>,
          <<OptMsgType, 1, DHCPREQUEST>>,
          <<OptEnd, OptMsgType, 1, DHCPDISCOVER>>,
          <<OptMsgType>>,
          <<OptMsgType, 0, OptEnd>>,
          <<12, 1, 65, OptEnd>>,
          <<>>}

Datagrams ==
    [short : {FALSE}, cookie : {TRUE}, xid : {1}, chaddr : Macs, opts : Trailers]
    \cup [short : {TRUE}, cookie : {TRUE}, xid : {1}, chaddr : {1},
          opts : {<<>>}]
    \cup [short : {FALSE}, cookie : {FALSE}, xid : {1}, chaddr : {1},
          opts : {<<OptMsgType, 1, DHCPDISCOVER, OptEnd>>}]

\* the option loop of _parse_dhcp_packet; d[i] is data[240 + i - 1].
\* Reading the length byte past the end raises IndexError; a value slice
\* past the end is cut short.
RECURSIVE ParseOptions(_, _, _)
ParseOptions(d, i, acc) ==
    IF i > Len(d) THEN [ok |-> TRUE, map |-> acc]
    ELSE IF d[i] = OptPad THEN ParseOptions(d, i + 1, acc)
    ELSE IF d[i] = OptEnd THEN [ok |-> TRUE, map |-> acc]
    ELSE IF i + 1 > Len(d) THEN [ok |-> FALSE, map |-> acc]
    ELSE LET length == d[i + 1]
             value == SubSeq(d, i + 2, Min(i + 1 + length, Len(d)))
         IN  ParseOptions(d, i + 2 + length, (d[i] :> value) @@ acc)

\* _parse_dhcp_packet: {} (ok = FALSE) for a short datagram or a parse
\* error; the 'options' key is present only with len > 240 and the cookie
ParseDhcpPacket(data) ==
    IF data.short THEN [ok |-> FALSE]
    ELSE IF Len(data.opts) > 0 /\ data.cookie
    THEN LET o == ParseOptions(data.opts, 1, <<>>)
         IN  IF ~o.ok THEN [ok |-> FALSE]
             ELSE [ok |-> TRUE, xid |-> data.xid, chaddr |-> data.chaddr,
                   has_options |-> TRUE, options |-> o.map]
    ELSE [ok |-> TRUE, xid |-> data.xid, chaddr |-> data.chaddr,
          has_options |-> FALSE, options |-> <<>>]

\* packet.get('options', {}).get(53, 0)
MsgType(packet) ==
    IF packet.has_options /\ OptMsgType \in DOMAIN packet.options
    THEN PyBytes(packet.options[OptMsgType])
    ELSE PyInt(0)

\* A dispatch that compares the option's byte with the constant and sends
\* everything that is not a DISCOVER to the REQUEST handler.
RouteElse(msg_type) ==
    IF msg_type.ty = "bytes" /\ msg_type.val = <<DHCPDISCOVER>>
    THEN "discover" ELSE "request"

\* the dispatch of _process_dhcp_packet
Route(msg_type) ==
    IF PyEq(msg_type, PyInt(DHCPDISCOVER)) THEN "discover"
    ELSE IF PyEq(msg_type, PyInt(DHCPREQUEST)) THEN "request"
    ELSE "none"

\* The datagram is one the codec accepts and carries option 53.
WellFormed(data) ==
    /\ ~data.short
    /\ data.cookie
    /\ ParseDhcpPacket(data).ok
    /\ ParseDhcpPacket(data).has_options
    /\ OptMsgType \in DOMAIN ParseDhcpPacket(data).options

\* The message type a well-formed datagram declares (0: not a single byte).
DeclaredType(data) ==
    LET v == ParseDhcpPacket(data).options[OptMsgType]
    IN  IF Len(v) = 1 THEN v[1] ELSE 0

\* ---------------------------------------------------------------- replies
\* the fields _send_dhcp_offer / _send_dhcp_ack write; locked tells whether
\* the lease-table mutex was held when sendto was called
Reply(type, ip, mac, xid, locked) ==
    [type |-> type, yiaddr |-> ip, siaddr |-> server_ip, chaddr |-> mac,
     xid |-> xid, lease |-> lease_time, locked |-> locked]

\* sendto: inet_aton(None) and a missing or closed socket raise, and the
\* sender swallows the exception
Send(reply) ==
    IF server_ip # NoIp /\ server_socket = "open" THEN <<reply>> ELSE <<>>

SendDhcpOffer(ip, mac, xid) == Send(Reply(DHCPOFFER, ip, mac, xid, FALSE))

SendDhcpAck(ip, mac, xid) == Send(Reply(DHCPACK, ip, mac, xid, TRUE))

\* ---------------------------------------------------------------- handlers
Unchanged ==
    [leases |-> leases, pool |-> available_ips, out |-> <<>>, pending |-> <<>>]

\* the handler at the statement named by pc, with its locals
Handling(pc, ip, mac, xid) == <<[pc |-> pc, ip |-> ip, mac |-> mac, xid |-> xid]>>

\* the handler has left the with block and is about to call _send_dhcp_offer
Offer(ip, mac, xid) == Handling("send", ip, mac, xid)

\* A lookup that never finds the existing lease.
HasActiveLeaseNever(mac) == FALSE

\* A lookup that forgets the expiry check.
HasActiveLeaseIgnoreExpiry(mac) == LeaseHas(leases, mac)

\* chaddr in self.leases and time.time() < self.leases[chaddr][1]
HasActiveLease(mac) ==
    LeaseHas(leases, mac) /\ Active(LeaseGet(leases, mac), now)

\* the addresses random.choice(self.available_ips) can return
Drawable == Range(available_ips)

\* _handle_dhcp_discover up to the end of the with block when no other
\* thread writes the pool meanwhile (the datagram path below, where
\* configure is not called): the possible outcomes, one per address the
\* random choice can draw.  The OFFER is sent after the lock is released,
\* by SendOffer.
HandleDhcpDiscover(mac, xid) ==
    IF HasActiveLease(mac)
    THEN {[leases |-> leases, pool |-> available_ips, out |-> <<>>,
           pending |-> Offer(LeaseGet(leases, mac).ip, mac, xid)]}
    ELSE IF Drawable = {}
    THEN {Unchanged}
    ELSE {[leases |-> LeaseStore(leases, mac, ip, now + lease_time),
           pool |-> ListRemove(available_ips, ip), out |-> <<>>,
           pending |-> Offer(ip, mac, xid)] : ip \in Drawable}

\* A renewal that keeps the old expiry.
RenewedExpiryStale(mac) == LeaseGet(leases, mac).exp

\* time.time() + self.lease_time
RenewedExpiry(mac) == now + lease_time

\* _handle_dhcp_request
HandleDhcpRequest(mac, xid) ==
    IF LeaseHas(leases, mac)
    THEN LET requested_ip == LeaseGet(leases, mac).ip
         IN  {[leases |-> LeaseStore(leases, mac, requested_ip, RenewedExpiry(mac)),
               pool |-> available_ips,
               out |-> SendDhcpAck(requested_ip, mac, xid),
               pending |-> <<>>]}
    ELSE {Unchanged}

\* _process_dhcp_packet
ProcessDhcpPacket(data) ==
    LET packet == ParseDhcpPacket(data)
    IN  IF ~packet.ok THEN {Unchanged}
        ELSE LET r == Route(MsgType(packet))
             IN  IF r = "discover" THEN HandleDhcpDiscover(packet.chaddr, packet.xid)
                 ELSE IF r = "request" THEN HandleDhcpRequest(packet.chaddr, packet.xid)
                 ELSE {Unchanged}

\* what _process_dhcp_packet did with the datagram
Routed(data) ==
    LET packet == ParseDhcpPacket(data)
    IN  IF ~packet.ok THEN "none" ELSE Route(MsgType(packet))

NoOp == [op |-> "none", mac |-> 0, xid |-> 0, mtype |-> 0, wf |-> FALSE,
         route |-> "none"]

Op(name) == [NoOp EXCEPT !.op = name]

\* ------------------------------------------------------------------- Init
\* DHCPManager.__init__ and DHCPWorker.__init__
InitManager ==
    /\ now = 0
    /\ interface = "None"
    /\ server_ip = NoIp
    /\ lease_time = DefaultLeaseTime
    /\ configuring = <<>>
    /\ leases = {}
    /\ available_ips = <<>>
    /\ server_socket = "none"
    /\ is_running = FALSE
    /\ out = <<>>
    /\ last = NoOp

InitWorker ==
    /\ should_stop = FALSE
    /\ stop_event = FALSE
    /\ tpc = "unstarted"
    /\ spc = "idle"
    /\ pending = <<>>

\* No ConfigurationWorker exists yet: main_window constructs one only when
\* the user starts the configuration of the discovered cameras.
NoConfigurationWorker ==
    /\ cameras = <<>>
    /\ config_params = [ip_mode |-> "none"]
    /\ cw_should_stop = FALSE
    /\ results = <<>>
    /\ wpc = "unstarted"
    /\ cam_idx = 0
    /\ sequential_ip_index = 0
    /\ final_ip = <<>>
    /\ camera_result = <<>>
    /\ calls = <<>>
    /\ failures = 0
    /\ emitted = 0

\* CameraOperations.__init__: no method has been called.  The operations
\* are followed request by request only in the specification of the
\* camera operations; elsewhere a call is its outcome.
NoResponse == [kind |-> "none", status |-> 0, text |-> {}]
NoReturn == [success |-> FALSE, message |-> "", about |-> NoResponse]
NoPrefix == [raised |-> FALSE, value |-> 0]
NoCall == [name |-> "none", final_ip |-> <<>>, subnet |-> <<>>]

NoCameraOperation ==
    /\ call = NoCall
    /\ cpc = "idle"
    /\ attempt = 0
    /\ prefix_length = NoPrefix
    /\ result = {}
    /\ sent = <<>>
    /\ ret = NoReturn

\* wait_for_camera_online has not been called
NoWaitReturn == [reachable |-> FALSE, elapsed |-> 0]

NoWait ==
    /\ wait_args = [max_wait_time |-> 0, check_interval |-> 0]
    /\ wtpc = "idle"
    /\ start_time = 0
    /\ elapsed = 0
    /\ polls = <<>>
    /\ wait_ret = NoWaitReturn

Init ==
    /\ InitManager /\ InitWorker
    /\ NoConfigurationWorker /\ NoCameraOperation /\ NoWait

\* -------------------------------------------------------------- configure
\* DHCPManager.configure runs on the caller's thread and takes no lock, so
\* the server thread can act between its statements.  One step per write of
\* the pool; self.leases is not touched.

\* configure, lines 144-148: the fields are stored.  (The server addresses
\* and lease times configure is called with are single values, so a handler
\* running between two of these assignments reads what it reads after them.)
Configure(srv, start, end, lt) ==
    /\ configuring = <<>>
    /\ interface' = "eth0"
    /\ server_ip' = srv
    /\ lease_time' = lt
    /\ configuring' = <<[pc |-> "empty", start |-> start, end |-> end,
                         ip_int |-> start]>>
    /\ out' = <<>>
    /\ last' = Op("configure")
    /\ UNCHANGED <<now, tableVars, sockVars, threadVars, orchVars,
                   opVars, waitVars>>

configureFrame == <<now, interface, server_ip, lease_time, leases, sockVars,
                    threadVars, orchVars, opVars, waitVars>>

\* _generate_ip_pool, lines 155-162: the list is replaced by an empty one,
\* then the range is parsed; start > end raises, which ends configure with
\* the fields stored and the pool empty
EmptyPool ==
    /\ configuring # <<>>
    /\ configuring[1].pc = "empty"
    /\ available_ips' = <<>>
    /\ configuring' = IF configuring[1].start > configuring[1].end
                      THEN <<>>
                      ELSE <<[configuring[1] EXCEPT !.pc = "fill"]>>
    /\ out' = <<>>
    /\ last' = Op("empty")
    /\ UNCHANGED configureFrame

\* _generate_ip_pool, lines 165-168: one round of the loop appends ip_int
\* to the list unless it is the server's address; configure returns after
\* the round for end
FillPool ==
    /\ configuring # <<>>
    /\ configuring[1].pc = "fill"
    /\ available_ips' = IF configuring[1].ip_int # server_ip
                        THEN Append(available_ips, configuring[1].ip_int)
                        ELSE available_ips
    /\ configuring' = IF configuring[1].ip_int = configuring[1].end
                      THEN <<>>
                      ELSE <<[configuring[1] EXCEPT !.ip_int = @ + 1]>>
    /\ out' = <<>>
    /\ last' = Op("fill")
    /\ UNCHANGED configureFrame

\* the clock advances
Tick ==
    /\ now < MaxTime
    /\ now' = now + 1
    /\ out' = <<>>
    /\ last' = Op("tick")
    /\ UNCHANGED <<mgrVars, tableVars, sockVars, threadVars, orchVars,
                   opVars, waitVars>>

\* start(), lines 198-224 and 251-254: the endpoint is created and bound
\* and is_running set; when bind raises, the socket stays assigned,
\* is_running is False and the exception leaves start()
Bind ==
    /\ ~is_running
    /\ interface # "None" /\ server_ip # NoIp /\ available_ips # <<>>
    /\ server_socket' = "open"
    /\ \E bound \in BOOLEAN :
         /\ is_running' = bound
         /\ last' = Op(IF bound THEN "bind" ELSE "bindfail")
    /\ out' = <<>>
    /\ UNCHANGED <<now, mgrVars, tableVars, threadVars, orchVars,
                   opVars, waitVars>>

Apply(r) ==
    /\ leases' = r.leases
    /\ available_ips' = r.pool
    /\ out' = r.out
    /\ pending' = r.pending

\* the server loop is in recvfrom: start() has bound the endpoint and set
\* is_running, and the handler of the datagram before has returned
Serving == is_running /\ server_socket = "open" /\ pending = <<>>

handlerFrame == <<now, mgrVars, sockVars, should_stop, stop_event, tpc, spc,
                  orchVars, opVars, waitVars>>

HandlerOp(name) ==
    [NoOp EXCEPT !.op = name, !.mac = pending[1].mac, !.xid = pending[1].xid]

\* a DISCOVER reaches its handler (the loop received it on the endpoint):
\* lines 408-416, the lock taken, the lease looked up and, without an active
\* lease, the pool tested.  With an active lease the handler leaves the
\* lock holding the leased address; with an empty pool it returns.
Discover(mac, xid) ==
    /\ Serving
    /\ pending' = IF HasActiveLease(mac)
                  THEN Offer(LeaseGet(leases, mac).ip, mac, xid)
                  ELSE IF available_ips = <<>>
                  THEN <<>>
                  ELSE Handling("choice", NoIp, mac, xid)
    /\ out' = <<>>
    /\ last' = [NoOp EXCEPT !.op = "discover", !.mac = mac, !.xid = xid]
    /\ UNCHANGED <<tableVars, handlerFrame>>

\* line 419, offer_ip = random.choice(self.available_ips): on a list that
\* configure has emptied since the test, IndexError, which the handler's
\* except clause (428) swallows
DrawAddress ==
    /\ pending # <<>>
    /\ pending[1].pc = "choice"
    /\ IF available_ips = <<>>
       THEN pending' = <<>>
       ELSE \E ip \in Drawable :
                pending' = Handling("remove", ip, pending[1].mac, pending[1].xid)
    /\ out' = <<>>
    /\ last' = HandlerOp("choice")
    /\ UNCHANGED <<tableVars, handlerFrame>>

\* line 420, self.available_ips.remove(offer_ip): on a list that configure
\* has replaced since the draw and that lacks the address, ValueError,
\* swallowed at 428: no lease is stored and no OFFER sent
RemoveAddress ==
    /\ pending # <<>>
    /\ pending[1].pc = "remove"
    /\ IF pending[1].ip \in Range(available_ips)
       THEN /\ available_ips' = ListRemove(available_ips, pending[1].ip)
            /\ pending' = Handling("store", pending[1].ip, pending[1].mac,
                                   pending[1].xid)
       ELSE /\ available_ips' = available_ips
            /\ pending' = <<>>
    /\ out' = <<>>
    /\ last' = HandlerOp("remove")
    /\ UNCHANGED <<leases, handlerFrame>>

\* line 423, self.leases[chaddr] = (offer_ip, time.time() + self.lease_time),
\* and the end of the with block
StoreLease ==
    /\ pending # <<>>
    /\ pending[1].pc = "store"
    /\ leases' = LeaseStore(leases, pending[1].mac, pending[1].ip,
                            now + lease_time)
    /\ pending' = Offer(pending[1].ip, pending[1].mac, pending[1].xid)
    /\ out' = <<>>
    /\ last' = HandlerOp("store")
    /\ UNCHANGED <<available_ips, handlerFrame>>

\* a REQUEST reaches its handler (the loop received it on the endpoint)
Request(mac, xid) ==
    /\ Serving
    /\ \E r \in HandleDhcpRequest(mac, xid) : Apply(r)
    /\ last' = [NoOp EXCEPT !.op = "request", !.mac = mac, !.xid = xid]
    /\ UNCHANGED handlerFrame

\* _handle_dhcp_discover after the with block: _send_dhcp_offer, which
\* reads server_ip, lease_time and the socket as they are by then
SendOffer ==
    /\ pending # <<>>
    /\ pending[1].pc = "send"
    /\ out' = SendDhcpOffer(pending[1].ip, pending[1].mac, pending[1].xid)
    /\ pending' = <<>>
    /\ last' = HandlerOp("offer")
    /\ UNCHANGED <<now, mgrVars, tableVars, sockVars, should_stop, stop_event,
                   tpc, spc, orchVars, opVars, waitVars>>

RecvOp(data) ==
    [op |-> "recv", mac |-> data.chaddr, xid |-> data.xid,
     mtype |-> IF WellFormed(data) THEN DeclaredType(data) ELSE 0,
     wf |-> WellFormed(data), route |-> Routed(data)]

\* the server loop hands a received datagram to _process_dhcp_packet
Receive(data) ==
    /\ Serving
    /\ \E r \in ProcessDhcpPacket(data) : Apply(r)
    /\ last' = RecvOp(data)
    /\ UNCHANGED handlerFrame

Next ==
    \/ Bind
    \/ \E mac \in Macs, xid \in Xids : Discover(mac, xid)
    \/ DrawAddress
    \/ RemoveAddress
    \/ StoreLease
    \/ SendOffer
    \/ \E mac \in Macs, xid \in Xids : Request(mac, xid)
    \/ \E srv \in ServerIps, start \in Ips, end \in Ips, lt \in LeaseTimes :
           Configure(srv, start, end, lt)
    \/ EmptyPool
    \/ FillPool
    \/ Tick

Spec == Init /\ [][Next]_vars

\* ------------------------------------------------------ lease-table claims
ActiveFor(m) == {e \in leases : e.mac = m /\ now < e.exp}

EntriesFor(L, m) == {e \in L : e.mac = m}

\* C1: in every reachable state each hardware address has at most one
\* active lease (at most one item with now < expiry).
C1_OneActiveLeasePerMac ==
    \A m \in Macs : Cardinality(ActiveFor(m)) <= 1

\* a REQUEST has just renewed a lease that is active at a later time than
\* its creation
C1_Witness ==
    /\ last.op = "request"
    /\ now > 0
    /\ ActiveFor(last.mac) # {}

\* C2: no two distinct hardware addresses hold an active lease on the same
\* address.
C2_DistinctActiveAddresses ==
    \A e1 \in leases, e2 \in leases :
        (e1.mac # e2.mac /\ now < e1.exp /\ now < e2.exp) => e1.ip # e2.ip

\* C3: every address in an active lease is absent from the pool.
C3_ActiveLeaseNotInPool ==
    \A e \in leases : now < e.exp => e.ip \notin Range(available_ips)

\* C4: once a lease has expired its address is available again: it is in
\* the pool, or it has been drawn from there into an active lease.
C4_ExpiredAddressReturns ==
    \A e \in leases :
        ~(now < e.exp) =>
            \/ e.ip \in Range(available_ips)
            \/ \E f \in leases : f.ip = e.ip /\ now < f.exp

\* C5: a DISCOVER from a hardware address whose lease is active is offered
\* the leased address, and neither the pool nor the address changes: the
\* handler leaves the lock holding the leased address as its offer, and the
\* send that follows emits one OFFER carrying the address it holds.
C5_RepeatDiscoverSameOffer ==
    [][/\ \A m \in Macs : \A e \in leases :
            (e.mac = m /\ now < e.exp /\ last'.op = "discover" /\ last'.mac = m)
            => /\ pending' = Offer(e.ip, m, last'.xid)
               /\ available_ips' = available_ips
               /\ \A f \in EntriesFor(leases', m) : f.ip = e.ip
       /\ last'.op = "offer"
            => /\ Len(out') = 1
               /\ out'[1].type = DHCPOFFER
               /\ out'[1].yiaddr = pending[1].ip
               /\ out'[1].chaddr = pending[1].mac
               /\ available_ips' = available_ips
               /\ leases' = leases]_vars

\* a DISCOVER has left the lock with the address of a lease that was not
\* created by it (a new lease expires at now + lease_time) as its offer
C5_Witness ==
    /\ last.op = "discover"
    /\ pending # <<>>
    /\ \E e \in ActiveFor(last.mac) :
           e.exp < now + lease_time /\ pending[1].ip = e.ip

\* C8: a DISCOVER from a hardware address without an active lease, with the
\* pool empty, is dropped: no reply, lease table and pool unchanged, the
\* server still running.  The pool is read where the handler tests it (413)
\* and, when it was not empty there, where the handler draws from it (419).
C8_EmptyPoolDrop ==
    [][(\/ /\ last'.op = "discover"
           /\ ActiveFor(last'.mac) = {}
           /\ available_ips = <<>>
        \/ /\ last'.op = "choice"
           /\ available_ips = <<>>)
       => /\ out' = <<>>
          /\ pending' = <<>>
          /\ leases' = leases
          /\ available_ips' = available_ips
          /\ UNCHANGED sockVars]_vars

\* a DISCOVER met an empty pool, from a hardware address whose lease had
\* expired
C8_Witness ==
    /\ last.op = "discover"
    /\ out = <<>>
    /\ pending = <<>>
    /\ available_ips = <<>>
    /\ ActiveFor(last.mac) = {}
    /\ EntriesFor(leases, last.mac) # {}
    /\ is_running

\* C10: a REQUEST from a hardware address with a lease sets the expiry to
\* now + lease_time, keeps the address, and emits exactly one ACK carrying
\* the leased address and the request's transaction id.
C10_RequestRenews ==
    [][\A e \in leases :
          (last'.op = "request" /\ last'.mac = e.mac)
          => /\ EntriesFor(leases', e.mac) =
                    {[mac |-> e.mac, ip |-> e.ip, exp |-> now + lease_time]}
             /\ Len(out') = 1
             /\ out'[1].type = DHCPACK
             /\ out'[1].yiaddr = e.ip
             /\ out'[1].chaddr = e.mac
             /\ out'[1].xid = last'.xid]_vars

\* a REQUEST was acknowledged and moved the expiry of an older lease
C10_Witness ==
    /\ last.op = "request"
    /\ now > 0
    /\ Len(out) = 1
    /\ out[1].type = DHCPACK
    /\ \E e \in leases :
           e.mac = last.mac /\ e.exp = now + lease_time /\ out[1].yiaddr = e.ip

\* ------------------------------------------------------------ packet path
\* A manager configured with the range 1..MaxIp and server address 1, its
\* endpoint bound: configure(.., 1, 1, MaxIp, 1) and start() up to the loop.
InitPacket ==
    /\ now = 0
    /\ interface = "eth0"
    /\ server_ip = 1
    /\ lease_time = 1
    /\ configuring = <<>>
    /\ leases = {}
    /\ available_ips = GenerateIpPool(1, MaxIp, 1)
    /\ server_socket = "open"
    /\ is_running = TRUE
    /\ out = <<>>
    /\ last = NoOp
    /\ InitWorker
    /\ NoConfigurationWorker
    /\ NoCameraOperation /\ NoWait

NextPacket ==
    \/ \E data \in Datagrams : Receive(data)
    \/ \E mac \in Macs, xid \in Xids : Discover(mac, xid)
    \/ DrawAddress
    \/ RemoveAddress
    \/ StoreLease
    \/ SendOffer
    \/ \E mac \in Macs, xid \in Xids : Request(mac, xid)

SpecPacket == InitPacket /\ [][NextPacket]_vars

\* C6: a well-formed datagram with message type 1 is routed to DISCOVER
\* handling and one with type 3 to REQUEST handling; a routed DISCOVER
\* leaves a lease for its sender (drawn now or held before).
C6_TypesRouted ==
    (last.op = "recv" /\ last.wf)
    => /\ last.mtype = DHCPDISCOVER =>
              (last.route = "discover" /\ EntriesFor(leases, last.mac) # {})
       /\ last.mtype = DHCPREQUEST => last.route = "request"

\* C9: DECLINE, RELEASE and INFORM, and a REQUEST from a hardware address
\* with no lease entry, get no reply and change neither leases nor pool.
C9_UnknownDropped ==
    [][(\/ /\ last'.op = "recv" /\ last'.wf
           /\ last'.mtype \in {DHCPDECLINE, DHCPRELEASE, 8}
        \/ /\ last'.op = "request"
           /\ EntriesFor(leases, last'.mac) = {}
        \/ /\ last'.op = "recv" /\ last'.wf
           /\ last'.mtype = DHCPREQUEST
           /\ EntriesFor(leases, last'.mac) = {})
       => /\ out' = <<>>
          /\ leases' = leases
          /\ available_ips' = available_ips]_vars

\* a RELEASE arrived from a hardware address that holds a lease
C9_Witness ==
    /\ last.op = "recv"
    /\ last.wf
    /\ last.mtype = DHCPRELEASE
    /\ EntriesFor(leases, last.mac) # {}
    /\ out = <<>>

\* ---------------------------------------------------------- server thread
\* DHCPWorker.run and DHCPManager.start, one step per statement that reads
\* or writes state shared with DHCPWorker.stop.

Configured == interface # "None" /\ server_ip # NoIp /\ available_ips # <<>>

\* The worker thread was started (QThread.start) on a fresh manager, either
\* as constructed or configured with the range 1..MaxIp and server address 1.
InitServer ==
    /\ now = 0
    /\ \/ interface = "None" /\ server_ip = NoIp /\ available_ips = <<>>
          /\ lease_time = DefaultLeaseTime
       \/ interface = "eth0" /\ server_ip = 1
          /\ available_ips = GenerateIpPool(1, MaxIp, 1)
          /\ lease_time \in LeaseTimes
    /\ configuring = <<>>
    /\ leases = {}
    /\ server_socket = "none"
    /\ is_running = FALSE
    /\ out = <<>>
    /\ last = NoOp
    /\ should_stop = FALSE
    /\ stop_event = FALSE
    /\ tpc = "run"
    /\ spc = "idle"
    /\ pending = <<>>
    /\ NoConfigurationWorker
    /\ NoCameraOperation /\ NoWait

Quiet == out' = <<>> /\ UNCHANGED <<now, mgrVars, tableVars, orchVars,
                   opVars, waitVars>>

\* run(): self.dhcp_manager.start(stop_event=self._should_stop) binds the
\* parameter to the flag's value at the time of the call
WorkerRun ==
    /\ tpc = "run"
    /\ stop_event' = should_stop
    /\ tpc' = "start"
    /\ last' = Op("run")
    /\ Quiet /\ UNCHANGED <<sockVars, should_stop, spc, pending>>

\* start(), lines 198-202: return when running, ValueError when not
\* configured (the worker catches it)
StartCheck ==
    /\ tpc = "start"
    /\ tpc' = IF is_running \/ ~Configured THEN "done" ELSE "socket"
    /\ last' = Op("start")
    /\ Quiet /\ UNCHANGED <<sockVars, should_stop, stop_event, spc, pending>>

\* line 206: self.server_socket = socket.socket(...)
CreateSocket ==
    /\ tpc = "socket"
    /\ server_socket' = "open"
    /\ tpc' = "bind"
    /\ last' = Op("socket")
    /\ Quiet /\ UNCHANGED <<is_running, should_stop, stop_event, spc, pending>>

\* lines 207-221: setsockopt and bind succeed on the open socket
BindOk ==
    /\ tpc = "bind"
    /\ server_socket = "open"
    /\ tpc' = "running"
    /\ last' = Op("bind")
    /\ Quiet /\ UNCHANGED <<sockVars, should_stop, stop_event, spc, pending>>

\* lines 216-218, 251-254: bind raises (port in use, no permission, socket
\* closed meanwhile); is_running = False and the exception leaves start()
BindFail ==
    /\ tpc = "bind"
    /\ is_running' = FALSE
    /\ tpc' = "done"
    /\ last' = Op("bindfail")
    /\ Quiet /\ UNCHANGED <<server_socket, should_stop, stop_event, spc, pending>>

\* line 223: self.is_running = True
SetRunning ==
    /\ tpc = "running"
    /\ is_running' = TRUE
    /\ tpc' = "loop"
    /\ last' = Op("running")
    /\ Quiet /\ UNCHANGED <<server_socket, should_stop, stop_event, spc, pending>>

\* line 227: while not stop_event (the parameter, not the worker's flag);
\* lines 248-249 when the loop is left
LoopTest ==
    /\ tpc = "loop"
    /\ IF stop_event
       THEN is_running' = FALSE /\ tpc' = "done"
       ELSE is_running' = is_running /\ tpc' = "settimeout"
    /\ last' = Op("looptest")
    /\ Quiet /\ UNCHANGED <<server_socket, should_stop, stop_event, spc, pending>>

\* line 230: settimeout raises on a closed socket; lines 241-246 then
\* continue while is_running and break otherwise
SetTimeout ==
    /\ tpc = "settimeout"
    /\ IF server_socket = "open"
       THEN is_running' = is_running /\ tpc' = "recv"
       ELSE IF is_running
       THEN is_running' = is_running /\ tpc' = "loop"
       ELSE is_running' = FALSE /\ tpc' = "done"
    /\ last' = Op("settimeout")
    /\ Quiet /\ UNCHANGED <<server_socket, should_stop, stop_event, spc, pending>>

\* lines 233-234: a datagram arrives and is processed.  The dispatch of
\* _process_dhcp_packet hands no received datagram to
\* _handle_dhcp_discover (Route), so no OFFER is left to send when it
\* returns.
RecvData(data) ==
    /\ tpc = "recv"
    /\ server_socket = "open"
    /\ \E r \in ProcessDhcpPacket(data) : Apply(r)
    /\ tpc' = "loop"
    /\ last' = RecvOp(data)
    /\ UNCHANGED <<now, mgrVars, sockVars, should_stop, stop_event, spc, orchVars,
                   opVars, waitVars>>

\* lines 235-239: the receive times out, or raises OSError because the
\* socket was closed; both go round the loop again
RecvNothing ==
    /\ tpc = "recv"
    /\ tpc' = "loop"
    /\ last' = Op(IF server_socket = "open" THEN "timeout" ELSE "oserror")
    /\ Quiet /\ UNCHANGED <<sockVars, should_stop, stop_event, spc, pending>>

\* DHCPWorker.stop: self._should_stop = True
StopFlag ==
    /\ spc = "idle"
    /\ should_stop' = TRUE
    /\ spc' = "mgr_stop"
    /\ Quiet /\ UNCHANGED <<sockVars, stop_event, tpc, pending, last>>

\* DHCPManager.stop: self.is_running = False
StopRunning ==
    /\ spc = "mgr_stop"
    /\ is_running' = FALSE
    /\ spc' = "close"
    /\ Quiet /\ UNCHANGED <<server_socket, should_stop, stop_event, tpc, pending, last>>

\* DHCPManager.stop: if self.server_socket: close()
StopClose ==
    /\ spc = "close"
    /\ server_socket' = IF server_socket = "none" THEN "none" ELSE "closed"
    /\ spc' = "wait"
    /\ Quiet /\ UNCHANGED <<is_running, should_stop, stop_event, tpc, pending, last>>

\* DHCPWorker.stop: self.wait() returns once run() has returned
StopWait ==
    /\ spc = "wait"
    /\ tpc = "done"
    /\ spc' = "returned"
    /\ Quiet /\ UNCHANGED <<sockVars, should_stop, stop_event, tpc, pending, last>>

ServerStep ==
    \/ WorkerRun
    \/ StartCheck
    \/ CreateSocket
    \/ BindOk
    \/ BindFail
    \/ SetRunning
    \/ LoopTest
    \/ SetTimeout
    \/ \E data \in Datagrams : RecvData(data)
    \/ RecvNothing

StopStep ==
    \/ StopRunning
    \/ StopClose
    \/ StopWait

NextServer ==
    \/ ServerStep
    \/ StopFlag
    \/ StopStep

\* Both threads are scheduled: the server thread keeps taking steps while it
\* has one, and a stop() that was entered runs on.  Whether and when
\* stop() is called is the caller's choice.
SpecServer ==
    InitServer /\ [][NextServer]_vars /\ WF_vars(ServerStep) /\ WF_vars(StopStep)

\* C7: once stop() has set the flag and called DHCPManager.stop, the server
\* thread terminates, so that the wait in stop() returns.
C7_StopTerminatesLoop == (spc = "wait") ~> (tpc = "done")

(***************************************************************************)
(* Part 2: the provisioning orchestrator (workers/unified_worker.py,       *)
(* ConfigurationWorker) and the address plan it consumes.                  *)
(*                                                                         *)
(*   SpecOrch    ConfigurationWorker.run on a list of discovered cameras,  *)
(*               one action per step of its per-camera program, and the    *)
(*               caller's ConfigurationWorker.stop.                        *)
(*                                                                         *)
(* A Python str is the sequence of its characters, a final address the     *)
(* tuple of its four octets, a dict the list of its items in insertion     *)
(* order.  The mode-dependent plan keys are written in full, as in the     *)
(* device's six-octet hardware address.                                    *)
(***************************************************************************)

\* ------------------------------------------------------------------ bounds
MaxCams == 2        \* at most MaxCams cameras were discovered
MaxPlan == 2        \* a positional plan holds at most MaxPlan addresses
MaxFailures == 2    \* at most MaxFailures device operations fail in a run

\* ----------------------------------------------------------------- values
PyTuple(t) == [ty |-> "tuple", val |-> t]

\* bool(x) as an if statement takes it: a tuple is true unless it is empty
PyTruth(x) == IF x.ty = "tuple" THEN Len(x.val) > 0 ELSE x.val

PyNone == <<>>       \* None, for final_ip and camera_result['final_ip']

LowerHex == <<"0", "1", "2", "3", "4", "5", "6", "7",
              "8", "9", "a", "b", "c", "d", "e", "f">>
UpperHex == <<"0", "1", "2", "3", "4", "5", "6", "7",
              "8", "9", "A", "B", "C", "D", "E", "F">>

\* str.upper() on one character, over the characters of a hardware address
UpperChar(c) ==
    IF \E k \in 1..16 : LowerHex[k] = c
    THEN UpperHex[CHOOSE k \in 1..16 : LowerHex[k] = c]
    ELSE c

StrUpper(s) == [k \in 1..Len(s) |-> UpperChar(s[k])]

\* s.replace(c, '')
StrRemove(s, c) == SelectSeq(s, LAMBDA x : x # c)

RECURSIVE StrJoin(_, _)
\* sep.join(parts), parts a list of strings, sep a string
StrJoin(parts, sep) ==
    IF parts = <<>> THEN <<>>
    ELSE IF Len(parts) = 1 THEN parts[1]
    ELSE parts[1] \o sep \o StrJoin(Tail(parts), sep)

\* f'{b:02x}'
Hex02(b) == <<LowerHex[(b \div 16) + 1], LowerHex[(b % 16) + 1]>>

\* the hardware address of lease key m as get_active_leases formats it
FormatMac(octets) ==
    StrJoin([k \in 1..Len(octets) |-> Hex02(octets[k])], <<":">>)

\* the six octets of the m-th device: aa:bb:cc:dd:ee:0m
MacOctets(m) == <<170, 187, 204, 221, 238, m>>

\* ----------------------------------------------------------------- inputs
\* the cameras the discovery handed over: temp address and hardware address
\* of the leases, in discovery order
DiscoveredCameras(n) ==
    [k \in 1..n |-> [ip |-> k + 1, mac |-> FormatMac(MacOctets(k))]]

PlanAddress(k) == <<10, 0, 0, 49 + k>>
Loopback == <<127, 0, 0, 1>>

\* positional plans: 10.0.0.50, 10.0.0.51, ... up to MaxPlan addresses (the
\* empty list included), and one plan a loader would not have validated
PositionalPlans ==
    {[k \in 1..n |-> PlanAddress(k)] : n \in 0..MaxPlan} \cup {<<Loopback>>}

\* a plan key for device m: its twelve hex digits, octets joined by sep
PlanKey(m, sep, upper) ==
    LET lower == StrJoin([k \in 1..6 |-> Hex02(MacOctets(m)[k])], sep)
    IN  IF upper THEN StrUpper(lower) ELSE lower

Separators == {<<":">>, <<"-">>, <<".">>, <<>>}

\* a keyed plan: the devices of S each mapped to 10.0.0.6m, every key
\* written the same way
KeyedPlanFor(S, sep, upper) ==
    LET F[k \in 0..MaxCams] ==
            IF k = 0 THEN <<>>
            ELSE IF k \in S
                 THEN Append(F[k - 1], [key |-> PlanKey(k, sep, upper),
                                        ip |-> PlanAddress(10 + k)])
                 ELSE F[k - 1]
    IN  F[MaxCams]

\* keyed plans as a loader that canonicalizes the keys hands them over, the
\* keys in uppercase hex without separators: the empty dict, the first
\* device alone, all devices
KeyedPlans == {KeyedPlanFor(S, <<>>, TRUE) : S \in {{}, {1}, 1..MaxCams}}

\* keyed plans as a caller may write them: the first device alone, its key
\* in any of the written forms
WrittenKeyedPlans ==
    {KeyedPlanFor({1}, sep, upper) : sep \in Separators, upper \in BOOLEAN}

AdminUsers == {"root", "admin"}
OnvifUsers == {"", "onvif"}

\* ------------------------------------------------------- helper functions
\* network_utils.validate_ip_address: returns the pair (valid, message)
ValidateIpAddress(ip) ==
    IF ip[1] = 127 THEN PyTuple(<<FALSE, "loopback">>)
    ELSE IF ip[1] >= 224 /\ ip[1] <= 239 THEN PyTuple(<<FALSE, "multicast">>)
    ELSE IF ip[1] >= 240 THEN PyTuple(<<FALSE, "reserved">>)
    ELSE IF ip = <<0, 0, 0, 0>> THEN PyTuple(<<FALSE, "unspecified">>)
    ELSE PyTuple(<<TRUE, "">>)

\* mac in ip_list, ip_list[mac]
DictHas(d, k) == \E j \in 1..Len(d) : d[j].key = k
DictGet(d, k) == d[CHOOSE j \in 1..Len(d) : d[j].key = k].ip

\* mac.replace(':', '').upper()
NormalizeMac(mac) == StrUpper(StrRemove(mac, ":"))

MacSpecificIpExactOnly(mac, ip_list) ==
    IF DictHas(ip_list, mac) THEN DictGet(ip_list, mac) ELSE PyNone

\* step 6, mac_specific: exact key first, then the first item whose key
\* normalizes to the device's normalized hardware address
MacSpecificIp(mac, ip_list) ==
    IF DictHas(ip_list, mac) THEN DictGet(ip_list, mac)
    ELSE LET hits == {j \in 1..Len(ip_list) :
                         NormalizeMac(ip_list[j].key) = NormalizeMac(mac)}
         IN  IF hits = {} THEN PyNone ELSE ip_list[CHOOSE j \in hits : \A h \in hits : j <= h].ip

\* what a camera operation returns: (success, message)
CallResult(ok) == [success |-> ok, message |-> IF ok THEN "ok" ELSE "error"]

\* a device operation may fail while the run's failure budget lasts
Outcomes == IF failures < MaxFailures THEN BOOLEAN ELSE {TRUE}

Failed(ok) == IF ok THEN failures ELSE failures + 1

RecordedDropped(rec, name, r) == rec

\* camera_result['operations'][name] = {'success': .., 'message': ..}
Recorded(rec, name, r) ==
    [rec EXCEPT !.operations =
        Append(@, [name |-> name, success |-> r.success, message |-> r.message])]

Called(name, ok) ==
    [calls EXCEPT ![cam_idx] = Append(@, [op |-> name, ok |-> ok])]

\* An append that overwrites the last record of the list.
FinishReplacesLast(rec, status) ==
    /\ camera_result' = [rec EXCEPT !.status = status]
    /\ results' = IF results = <<>>
                  THEN <<[rec EXCEPT !.status = status]>>
                  ELSE [results EXCEPT ![Len(results)] =
                            [rec EXCEPT !.status = status]]
    /\ cam_idx' = cam_idx + 1
    /\ wpc' = "loop"

\* camera_result['status'] = status; self.results.append(camera_result);
\* then continue, or the end of the loop body
Finish(rec, status) ==
    /\ camera_result' = [rec EXCEPT !.status = status]
    /\ results' = Append(results, [rec EXCEPT !.status = status])
    /\ cam_idx' = cam_idx + 1
    /\ wpc' = "loop"

dhcpVars == <<now, mgrVars, tableVars, sockVars, out, last, threadVars>>

\* ------------------------------------------------------------------- Init
\* ConfigurationWorker.__init__, and QThread.start: the worker is at the
\* head of run.  The DHCP server is as constructed and takes no step.
\* the config_params dict the constructor is handed, by the keys run reads
\* (the constructor's docstring, lines 88-97); ip_list_type is
\* type(ip_list), "list" or "dict", which run tests with isinstance
ConfigParams(au, ou, mode, plan, ty) ==
    [admin_user |-> au, admin_pass |-> "pass", onvif_user |-> ou,
     onvif_pass |-> ou, ip_mode |-> mode, ip_list |-> plan,
     ip_list_type |-> ty]

InitRun ==
    /\ cw_should_stop = FALSE
    /\ results = <<>>
    /\ wpc = "run"
    /\ cam_idx = 0
    /\ sequential_ip_index = 0
    /\ final_ip = PyNone
    /\ camera_result = <<>>
    /\ calls = [c \in 1..Len(cameras) |-> <<>>]
    /\ failures = 0
    /\ emitted = 0

InitConfigurationWorker ==
    /\ \E n \in 0..MaxCams : cameras = DiscoveredCameras(n)
    /\ \E au \in AdminUsers, ou \in OnvifUsers :
         \/ \E plan \in PositionalPlans :
                config_params = ConfigParams(au, ou, "sequential", plan, "list")
         \/ \E plan \in KeyedPlans :
                config_params = ConfigParams(au, ou, "mac_specific", plan, "dict")
    /\ InitRun

InitOrch ==
    /\ InitManager /\ InitWorker /\ NoCameraOperation /\ NoWait
    /\ InitConfigurationWorker

\* ----------------------------------------------------- run: before the loop
\* the checks at the head of run: each failed check returns, and nothing is
\* emitted; otherwise the plan counter is set and the loop is entered
RunStart ==
    /\ wpc = "run"
    /\ IF \/ config_params.admin_pass = ""
          \/ cameras = <<>>
          \/ /\ config_params.ip_mode = "sequential"
             /\ \/ config_params.ip_list = <<>>
                \/ config_params.ip_list_type # "list"
          \/ /\ config_params.ip_mode = "mac_specific"
             /\ \/ config_params.ip_list = <<>>
                \/ config_params.ip_list_type # "dict"
       THEN /\ wpc' = "returned"
            /\ UNCHANGED <<cam_idx, sequential_ip_index>>
       ELSE /\ sequential_ip_index' = 0
            /\ cam_idx' = 1
            /\ wpc' = "loop"
    /\ UNCHANGED <<dhcpVars, opVars, waitVars, cwVars, final_ip, camera_result, envVars>>

\* the head of the for loop: the end of the list, the _should_stop test,
\* and the fresh camera_result
LoopHead ==
    /\ wpc = "loop"
    /\ IF cam_idx > Len(cameras) \/ cw_should_stop
       THEN /\ wpc' = "emit"
            /\ UNCHANGED camera_result
       ELSE /\ camera_result' = [temp_ip |-> cameras[cam_idx].ip,
                                 mac |-> cameras[cam_idx].mac,
                                 operations |-> <<>>,
                                 final_ip |-> PyNone,
                                 status |-> "Processing",
                                 serial |-> PyNone,
                                 verified_mac |-> PyNone]
            /\ wpc' = "root_admin"
    /\ UNCHANGED <<dhcpVars, opVars, waitVars, cwVars, cam_idx, sequential_ip_index, final_ip,
                   envVars>>

CreateInitialAdminNoAbort ==
    /\ wpc = "root_admin"
    /\ \E ok \in Outcomes :
         /\ calls' = Called("create_initial_admin", ok)
         /\ failures' = Failed(ok)
         /\ camera_result' = Recorded(camera_result, "root_admin", CallResult(ok))
    /\ wpc' = "secondary_admin"
    /\ UNCHANGED <<dhcpVars, opVars, waitVars, cwVars, cam_idx, sequential_ip_index, final_ip,
                   emitted>>

\* step 1: create_initial_admin; a failure ends this camera
CreateInitialAdmin ==
    /\ wpc = "root_admin"
    /\ \E ok \in Outcomes :
         LET rec == Recorded(camera_result, "root_admin", CallResult(ok))
         IN  /\ calls' = Called("create_initial_admin", ok)
             /\ failures' = Failed(ok)
             /\ IF ok
                THEN /\ camera_result' = rec
                     /\ wpc' = "secondary_admin"
                     /\ UNCHANGED <<results, cam_idx>>
                ELSE Finish(rec, "Failed - Root Admin Creation")
    /\ UNCHANGED <<dhcpVars, opVars, waitVars, cameras, config_params, cw_should_stop,
                   sequential_ip_index, final_ip, emitted>>

NonFatalStepAborts(name, key, next) ==
    /\ \E ok \in Outcomes :
         LET rec == Recorded(camera_result, key, CallResult(ok))
         IN  /\ calls' = Called(name, ok)
             /\ failures' = Failed(ok)
             /\ IF ok
                THEN /\ camera_result' = rec
                     /\ wpc' = next
                     /\ UNCHANGED <<results, cam_idx>>
                ELSE Finish(rec, "Failed")
    /\ UNCHANGED <<dhcpVars, opVars, waitVars, cameras, config_params, cw_should_stop,
                   sequential_ip_index, final_ip, emitted>>

\* a step whose failure is only logged: the call, its record, the next step
NonFatalStep(name, key, next) ==
    /\ \E ok \in Outcomes :
         /\ calls' = Called(name, ok)
         /\ failures' = Failed(ok)
         /\ camera_result' = Recorded(camera_result, key, CallResult(ok))
    /\ wpc' = next
    /\ UNCHANGED <<dhcpVars, opVars, waitVars, cwVars, cam_idx, sequential_ip_index, final_ip,
                   emitted>>

Skip(next) ==
    /\ wpc' = next
    /\ UNCHANGED <<dhcpVars, opVars, waitVars, cwVars, cam_idx, sequential_ip_index, final_ip,
                   camera_result, envVars>>

\* step 2: create_secondary_admin, only for an admin user other than root
CreateSecondaryAdmin ==
    /\ wpc = "secondary_admin"
    /\ IF config_params.admin_user # "" /\ config_params.admin_user # "root"
       THEN NonFatalStep("create_secondary_admin", "secondary_admin",
                         "onvif_user")
       ELSE Skip("onvif_user")

\* step 3: create_onvif_user, only with an ONVIF user and password
CreateOnvifUser ==
    /\ wpc = "onvif_user"
    /\ IF config_params.onvif_user # "" /\ config_params.onvif_pass # ""
       THEN NonFatalStep("create_onvif_user", "onvif_user", "wdr_off")
       ELSE Skip("wdr_off")

\* step 4: set_wdr_off
SetWdrOff ==
    /\ wpc = "wdr_off"
    /\ NonFatalStep("set_wdr_off", "wdr_off", "replay_protection_off")

\* step 5: set_replay_protection_off
SetReplayProtectionOff ==
    /\ wpc = "replay_protection_off"
    /\ NonFatalStep("set_replay_protection_off", "replay_protection_off",
                    "determine_ip")

\* step 6: the final address of this camera.  Sequential: the next unused
\* plan entry, the counter advanced.  mac_specific: the plan entry of the
\* camera's hardware address.  Then validate_ip_address, whose returned
\* pair is taken as the condition.
SequentialIpFirst == config_params.ip_list[1]

SequentialIp == config_params.ip_list[sequential_ip_index + 1]

\* the address was determined: validate_ip_address, then on to step 7
Validated(ip) ==
    IF ~PyTruth(ValidateIpAddress(ip))
    THEN Finish(camera_result, "Failed - Invalid IP")
    ELSE /\ wpc' = "set_static_ip"
         /\ UNCHANGED <<results, cam_idx, camera_result>>

SequentialStepWraps ==
    IF sequential_ip_index < Len(config_params.ip_list)
    THEN /\ final_ip' = SequentialIp
         /\ sequential_ip_index' = sequential_ip_index + 1
         /\ Validated(SequentialIp)
    ELSE /\ final_ip' = SequentialIpFirst
         /\ sequential_ip_index' = 1
         /\ Validated(SequentialIpFirst)

SequentialStep ==
    IF sequential_ip_index < Len(config_params.ip_list)
    THEN /\ final_ip' = SequentialIp
         /\ sequential_ip_index' = sequential_ip_index + 1
         /\ Validated(SequentialIp)
    ELSE /\ final_ip' = PyNone
         /\ Finish(camera_result, "Failed - No Available IP")
         /\ UNCHANGED sequential_ip_index

MacSpecificStep ==
    LET ip == MacSpecificIp(camera_result.mac, config_params.ip_list)
    IN  /\ final_ip' = ip
        /\ UNCHANGED sequential_ip_index
        /\ IF ip = PyNone
           THEN Finish(camera_result, "Failed - No MAC Match")
           ELSE Validated(ip)

DetermineFinalIp ==
    /\ wpc = "determine_ip"
    /\ IF config_params.ip_mode = "sequential"
       THEN SequentialStep
       ELSE MacSpecificStep
    /\ calls' = Called("determine_final_ip", wpc' = "set_static_ip")
    /\ UNCHANGED <<dhcpVars, opVars, waitVars, cameras, config_params, cw_should_stop, failures,
                   emitted>>

SetFinalStaticIpStoresFirst ==
    /\ wpc = "set_static_ip"
    /\ \E ok \in Outcomes :
         LET rec == [Recorded(camera_result, "set_static_ip", CallResult(ok))
                        EXCEPT !.final_ip = final_ip]
         IN  /\ calls' = Called("set_final_static_ip", ok)
             /\ failures' = Failed(ok)
             /\ IF ok
                THEN /\ camera_result' = rec
                     /\ wpc' = "wait_online"
                     /\ UNCHANGED <<results, cam_idx>>
                ELSE Finish(rec, "Failed - IP Configuration")
    /\ UNCHANGED <<dhcpVars, opVars, waitVars, cameras, config_params, cw_should_stop,
                   sequential_ip_index, final_ip, emitted>>

\* step 7: set_final_static_ip; a failure ends this camera, a success
\* stores the address in the record
SetFinalStaticIp ==
    /\ wpc = "set_static_ip"
    /\ \E ok \in Outcomes :
         LET rec == Recorded(camera_result, "set_static_ip", CallResult(ok))
         IN  /\ calls' = Called("set_final_static_ip", ok)
             /\ failures' = Failed(ok)
             /\ IF ok
                THEN /\ camera_result' = [rec EXCEPT !.final_ip = final_ip]
                     /\ wpc' = "wait_online"
                     /\ UNCHANGED <<results, cam_idx>>
                ELSE Finish(rec, "Failed - IP Configuration")
    /\ UNCHANGED <<dhcpVars, opVars, waitVars, cameras, config_params, cw_should_stop,
                   sequential_ip_index, final_ip, emitted>>

\* network_utils.wait_for_camera_online: the pair (reachable, elapsed)
WaitTime == 60
WaitResult(reachable) == PyTuple(<<reachable, IF reachable THEN 0 ELSE WaitTime>>)

\* step 8: wait_for_camera_online, its returned pair taken as the condition
WaitForCameraOnline ==
    /\ wpc = "wait_online"
    /\ \E reachable \in Outcomes :
         /\ calls' = Called("wait_for_camera_online", reachable)
         /\ failures' = Failed(reachable)
         /\ IF PyTruth(WaitResult(reachable))
            THEN /\ wpc' = "mac_serial"
                 /\ UNCHANGED <<results, cam_idx, camera_result>>
            ELSE Finish(camera_result, "Failed - Camera Offline After IP Change")
    /\ UNCHANGED <<dhcpVars, opVars, waitVars, cameras, config_params, cw_should_stop,
                   sequential_ip_index, final_ip, emitted>>

\* get_camera_mac_serial: the keys of the dict it returns, one per lookup
\* that succeeded; it reports success when the dict is not empty
InfoData == SUBSET {"serial", "mac"}

\* step 9: get_camera_mac_serial; on success camera_result['serial'] is
\* info_data.get('serial', '') and camera_result['verified_mac'] is set
\* when the dict has a 'mac'; then the camera is marked Success and its
\* record appended
GetCameraMacSerial ==
    /\ wpc = "mac_serial"
    /\ \E info_data \in InfoData :
         LET ok == info_data # {}
             rec == IF ok
                    THEN [camera_result EXCEPT
                             !.serial = IF "serial" \in info_data
                                        THEN <<"s", "n">> ELSE <<>>,
                             !.verified_mac =
                                 IF "mac" \in info_data
                                 THEN NormalizeMac(camera_result.mac) ELSE @]
                    ELSE camera_result
         IN  /\ ok \in Outcomes
             /\ calls' = Called("get_camera_mac_serial", ok)
             /\ failures' = Failed(ok)
             /\ Finish(rec, "Success")
    /\ UNCHANGED <<dhcpVars, opVars, waitVars, cameras, config_params, cw_should_stop,
                   sequential_ip_index, final_ip, emitted>>

EmitCompleteSilent ==
    /\ wpc = "emit"
    /\ wpc' = "done"
    /\ UNCHANGED <<dhcpVars, opVars, waitVars, cwVars, cam_idx, sequential_ip_index, final_ip,
                   camera_result, calls, failures, emitted>>

\* after the loop: configuration_complete.emit(self.results)
EmitComplete ==
    /\ wpc = "emit"
    /\ emitted' = emitted + 1
    /\ wpc' = "done"
    /\ UNCHANGED <<dhcpVars, opVars, waitVars, cwVars, cam_idx, sequential_ip_index, final_ip,
                   camera_result, calls, failures>>

\* ConfigurationWorker.stop, called from the GUI thread: the flag is set
\* whatever run is doing, and whether or not run has returned (closeEvent
\* tests isRunning, then waits for the user's answer before it calls stop)
StopConfiguration ==
    /\ cw_should_stop' = TRUE
    /\ UNCHANGED <<dhcpVars, opVars, waitVars, cameras, config_params, results, runVars, envVars>>

\* MainWindow.add_discovered_camera, on the GUI thread: the discovery
\* reports one more device, appended to the list object the worker
\* iterates over
AddDiscoveredCamera ==
    /\ Len(cameras) < MaxCams
    /\ cameras' = Append(cameras, DiscoveredCameras(Len(cameras) + 1)[Len(cameras) + 1])
    /\ calls' = Append(calls, <<>>)
    /\ UNCHANGED <<dhcpVars, opVars, waitVars, config_params, cw_should_stop,
                   results, runVars, failures, emitted>>

NextOrch ==
    \/ RunStart
    \/ LoopHead
    \/ CreateInitialAdmin
    \/ CreateSecondaryAdmin
    \/ CreateOnvifUser
    \/ SetWdrOff
    \/ SetReplayProtectionOff
    \/ DetermineFinalIp
    \/ SetFinalStaticIp
    \/ WaitForCameraOnline
    \/ GetCameraMacSerial
    \/ EmitComplete
    \/ StopConfiguration
    \/ AddDiscoveredCamera

SpecOrch == InitOrch /\ [][NextOrch]_vars

\* The keyed run: up to MaxCams cameras, no secondary and no ONVIF user,
\* and a plan that names the first camera under a key in some written form.
InitKeyed ==
    /\ InitManager /\ InitWorker /\ NoCameraOperation /\ NoWait
    /\ \E n \in 1..MaxCams : cameras = DiscoveredCameras(n)
    /\ \E plan \in WrittenKeyedPlans :
           config_params = ConfigParams("root", "", "mac_specific", plan, "dict")
    /\ InitRun

SpecKeyed == InitKeyed /\ [][NextOrch]_vars

\* -------------------------------------------------------- orchestrator claims
\* the nine steps of the per-camera program, in program order
StepOrder == <<"create_initial_admin", "create_secondary_admin",
               "create_onvif_user", "set_wdr_off", "set_replay_protection_off",
               "determine_final_ip", "set_final_static_ip",
               "wait_for_camera_online", "get_camera_mac_serial">>

StepRanks ==
    [op \in Range(StepOrder) |-> CHOOSE k \in 1..Len(StepOrder) : StepOrder[k] = op]

StepRank(op) == StepRanks[op]

\* the steps executed for the c-th camera, in the order executed
CallsOf(c) == IF c \in DOMAIN calls THEN calls[c] ELSE <<>>

StepsOf(c) == [k \in 1..Len(CallsOf(c)) |-> CallsOf(c)[k].op]

Executed(c, op) == \E k \in 1..Len(CallsOf(c)) : CallsOf(c)[k].op = op

\* the step op was executed for the c-th camera and came out as ok
Outcome(c, op, ok) ==
    \E k \in 1..Len(CallsOf(c)) : CallsOf(c)[k] = [op |-> op, ok |-> ok]

\* the record of the c-th camera: appended, or still being filled
RecordOf(c) == IF c <= Len(results) THEN results[c] ELSE camera_result

Started(c) == c \in 1..Len(cameras) /\ CallsOf(c) # <<>>

\* every step executed for the c-th camera comes later in the program than
\* the step executed before it
InOrder(c) ==
    LET steps == StepsOf(c)
    IN  \A k \in 1..(Len(steps) - 1) : StepRank(steps[k]) < StepRank(steps[k + 1])

\* the key under which a step's outcome is looked for in 'operations'
OpKey(op) ==
    CASE op = "create_initial_admin" -> "root_admin"
      [] op = "create_secondary_admin" -> "secondary_admin"
      [] op = "create_onvif_user" -> "onvif_user"
      [] op = "set_wdr_off" -> "wdr_off"
      [] op = "set_replay_protection_off" -> "replay_protection_off"
      [] op = "set_final_static_ip" -> "set_static_ip"
      [] OTHER -> op

OpNames(rec) == [k \in 1..Len(rec.operations) |-> rec.operations[k].name]

\* C11 as stated: the steps of a camera are executed in program order, none
\* twice, and whenever the worker stands between two steps every step
\* executed for the camera has its (success, message) entry in the record.
C11_StepsOrderedAllRecorded ==
    \A c \in 1..MaxCams :
        Started(c) =>
            LET steps == StepsOf(c)
                names == OpNames(RecordOf(c))
            IN  /\ InOrder(c)
                /\ \A k \in 1..Len(steps) :
                       \E j \in 1..Len(names) : names[j] = OpKey(steps[k])

\* the steps whose outcome run stores under 'operations'
RecordedSteps == {"create_initial_admin", "create_secondary_admin",
                  "create_onvif_user", "set_wdr_off",
                  "set_replay_protection_off", "set_final_static_ip"}

\* C11 amended: the steps of a camera are executed in program order, none
\* twice, and between two steps the record's 'operations' holds, in the
\* order executed, exactly the outcomes of the executed camera operations
\* of steps 1-5 and 7; address resolution, the reachability wait and
\* get_camera_mac_serial leave no (success, message) entry.
C11_StepsOrderedOpsRecorded ==
    \A c \in 1..Len(cameras) :
        Started(c) =>
            LET steps == StepsOf(c)
                ops == SelectSeq(steps, LAMBDA o : o \in RecordedSteps)
                names == OpNames(RecordOf(c))
            IN  /\ \A k \in 1..(Len(steps) - 1) :
                       StepRank(steps[k]) < StepRank(steps[k + 1])
                /\ Len(names) = Len(ops)
                /\ \A k \in 1..Len(ops) : names[k] = OpKey(ops[k])

\* a camera has gone through all nine steps and its record is appended
C11_Witness ==
    \E c \in 1..Len(results) : Len(CallsOf(c)) = Len(StepOrder)

\* C12: a camera is marked Success only after a reachability wait that
\* reported reachable = true; a camera whose wait reported false ends with
\* a failed status and get_camera_mac_serial is not executed for it.
C12_SuccessOnlyIfReachable ==
    \A c \in 1..MaxCams :
        Started(c) =>
            /\ RecordOf(c).status = "Success"
                  => Outcome(c, "wait_for_camera_online", TRUE)
            /\ Outcome(c, "wait_for_camera_online", FALSE)
                  => /\ RecordOf(c).status # "Success"
                     /\ ~Executed(c, "get_camera_mac_serial")

\* C13: a camera whose create_initial_admin failed has had no other step
\* executed, its record is appended with the root-admin failure status,
\* and the worker has gone on to the loop head for the next camera.
C13_RootAdminFailureAborts ==
    \A c \in 1..MaxCams :
        Outcome(c, "create_initial_admin", FALSE) =>
            /\ StepsOf(c) = <<"create_initial_admin">>
            /\ c <= Len(results)
            /\ results[c].status = "Failed - Root Admin Creation"
            /\ results[c].temp_ip = cameras[c].ip
            /\ cam_idx > c

\* the first camera failed at step 1 and the second is being processed
C13_Witness ==
    /\ Outcome(1, "create_initial_admin", FALSE)
    /\ Started(2)

SecondaryActive ==
    config_params.admin_user # "" /\ config_params.admin_user # "root"

OnvifActive == config_params.onvif_user # "" /\ config_params.onvif_pass # ""

\* C14: whatever the outcomes of the steps that are only logged, a camera
\* whose record is appended after a successful create_initial_admin has had
\* every step up to the address resolution executed; it is Success when
\* steps 1, 6, 7 and 8 succeeded, and a failed get_camera_mac_serial leaves
\* it Success.
C14_NonFatalFailuresIgnored ==
    \A c \in 1..Len(results) :
        /\ Outcome(c, "create_initial_admin", TRUE) =>
              /\ SecondaryActive => Executed(c, "create_secondary_admin")
              /\ OnvifActive => Executed(c, "create_onvif_user")
              /\ Executed(c, "set_wdr_off")
              /\ Executed(c, "set_replay_protection_off")
              /\ Executed(c, "determine_final_ip")
        /\ ( /\ Outcome(c, "create_initial_admin", TRUE)
             /\ Outcome(c, "determine_final_ip", TRUE)
             /\ Outcome(c, "set_final_static_ip", TRUE)
             /\ Outcome(c, "wait_for_camera_online", TRUE) )
              => results[c].status = "Success"
        /\ Outcome(c, "get_camera_mac_serial", FALSE)
              => results[c].status = "Success"

\* a camera ended Success although one of steps 2-5 and step 9 failed
C14_Witness ==
    \E c \in 1..Len(results) :
        /\ results[c].status = "Success"
        /\ Outcome(c, "wait_for_camera_online", TRUE)
        /\ Outcome(c, "get_camera_mac_serial", FALSE)
        /\ \E op \in {"create_secondary_admin", "create_onvif_user",
                       "set_wdr_off", "set_replay_protection_off"} :
               Outcome(c, op, FALSE)

\* the twelve hex digits of the c-th camera's hardware address, uppercase
CanonicalHws == [c \in 1..MaxCams |-> PlanKey(c, <<>>, TRUE)]

CanonicalHw(c) == CanonicalHws[c]

\* the plan entries whose key is the canonical hardware address of camera c
PlanEntriesOf(c) ==
    {j \in 1..Len(config_params.ip_list) :
        config_params.ip_list[j].key = CanonicalHw(c)}

NoAddressStatus == {"Failed - No Available IP", "Failed - No MAC Match"}

\* C15: a camera whose address resolution failed has its record appended
\* with a no-address status and no final address, and set_final_static_ip,
\* the wait and get_camera_mac_serial were not executed for it.  Under a
\* keyed plan with canonical keys, a camera that reached step 6 resolved to
\* its planned address if the plan names it and ended no-address otherwise.
C15_NoAddressAborts ==
    \A c \in 1..MaxCams :
        /\ Outcome(c, "determine_final_ip", FALSE) =>
              /\ c <= Len(results)
              /\ results[c].status \in NoAddressStatus
              /\ results[c].final_ip = PyNone
              /\ ~Executed(c, "set_final_static_ip")
              /\ ~Executed(c, "wait_for_camera_online")
              /\ ~Executed(c, "get_camera_mac_serial")
        /\ (config_params.ip_mode = "mac_specific"
               /\ Executed(c, "determine_final_ip")) =>
              IF PlanEntriesOf(c) = {}
              THEN c <= Len(results) /\ results[c].status = "Failed - No MAC Match"
              ELSE /\ Outcome(c, "determine_final_ip", TRUE)
                   /\ Outcome(c, "set_final_static_ip", TRUE) =>
                         \E j \in PlanEntriesOf(c) :
                             RecordOf(c).final_ip = config_params.ip_list[j].ip

\* keyed plan, one hit and one miss: the first camera holds its planned
\* address and the second ended without a match
C15_Witness ==
    /\ config_params.ip_mode = "mac_specific"
    /\ Len(results) >= 2
    /\ results[1].status = "Success"
    /\ results[1].final_ip = PlanAddress(11)
    /\ results[2].status = "Failed - No MAC Match"

\* C16: a camera whose set_final_static_ip failed has its record appended
\* with the ip-configuration failure status, the record's final address is
\* still unset, and neither the wait nor get_camera_mac_serial was executed.
C16_StaticIpFailureAborts ==
    \A c \in 1..MaxCams :
        Outcome(c, "set_final_static_ip", FALSE) =>
            /\ c <= Len(results)
            /\ results[c].status = "Failed - IP Configuration"
            /\ results[c].final_ip = PyNone
            /\ ~Executed(c, "wait_for_camera_online")
            /\ ~Executed(c, "get_camera_mac_serial")

\* set_final_static_ip failed for the first camera; the second is past it
C16_Witness ==
    /\ Outcome(1, "set_final_static_ip", FALSE)
    /\ Outcome(2, "set_final_static_ip", TRUE)

Positional == config_params.ip_mode = "sequential"

\* how many of the cameras 1..c have reached the address resolution
ResolutionsUpTo(c) ==
    Cardinality({d \in 1..c : Executed(d, "determine_final_ip")})

\* C17 as stated: under a positional plan the camera at position k of the
\* discovery order leaves the address resolution with the k-th plan address.
C17_KthCameraKthAddress ==
    (Positional /\ wpc = "set_static_ip") =>
        /\ cam_idx <= Len(config_params.ip_list)
        /\ final_ip = config_params.ip_list[cam_idx]

\* C17 amended: under a positional plan the k-th camera, in discovery
\* order, to reach the address resolution leaves it with the k-th plan
\* address; a camera that ended at create_initial_admin takes none.
C17_KthResolvedKthAddress ==
    (Positional /\ wpc = "set_static_ip") =>
        /\ ResolutionsUpTo(cam_idx) <= Len(config_params.ip_list)
        /\ final_ip = config_params.ip_list[ResolutionsUpTo(cam_idx)]

\* the first camera ended at create_initial_admin and the second camera
\* left the address resolution with the first plan address
C17_Witness ==
    /\ Positional
    /\ Outcome(1, "create_initial_admin", FALSE)
    /\ cam_idx = 2 /\ wpc = "set_static_ip"
    /\ final_ip = config_params.ip_list[1]

\* how many of the cameras 1..c ended Success
SuccessesUpTo(c) ==
    Cardinality({d \in 1..c : results[d].status = "Success"})

\* C18 as stated: under a positional plan the k-th camera that ended
\* Success, in discovery order, has the k-th plan address as final address.
C18_KthSuccessKthAddress ==
    Positional =>
        \A c \in 1..Len(results) :
            results[c].status = "Success" =>
                results[c].final_ip = config_params.ip_list[SuccessesUpTo(c)]

\* C18 amended: under a positional plan a camera that ended Success has as
\* final address the plan address at position j, j the number of cameras
\* up to and including it that reached the address resolution; j is at
\* least the camera's rank among the successful ones.
C18_SuccessHoldsResolvedAddress ==
    Positional =>
        \A c \in 1..Len(results) :
            results[c].status = "Success" =>
                /\ results[c].final_ip = config_params.ip_list[ResolutionsUpTo(c)]
                /\ SuccessesUpTo(c) <= ResolutionsUpTo(c)

\* the first camera failed at set_final_static_ip and the second, the
\* first to end Success, holds the second plan address
C18_Witness ==
    /\ Positional
    /\ Len(results) >= 2
    /\ results[1].status = "Failed - IP Configuration"
    /\ results[2].status = "Success"
    /\ results[2].final_ip = config_params.ip_list[2]

\* the plan was used up by the cameras before the c-th
ExhaustedBefore(c) == ResolutionsUpTo(c - 1) >= Len(config_params.ip_list)

\* C19 as stated: under a positional plan every camera processed after
\* the plan was used up ends with the no-address failure status.
C19_ExhaustedAllNoAddress ==
    Positional =>
        \A c \in 1..Len(results) :
            ExhaustedBefore(c) => results[c].status = "Failed - No Available IP"

\* C19 amended: under a positional plan a camera processed after the plan
\* was used up is never given an address: it ends with the no-address
\* failure status if its create_initial_admin succeeded and with the
\* root-admin failure status otherwise, no step being executed twice.
C19_ExhaustedNoneAssigned ==
    Positional =>
        \A c \in 1..Len(results) :
            ExhaustedBefore(c) =>
                /\ results[c].final_ip = PyNone
                /\ ~Executed(c, "set_final_static_ip")
                /\ InOrder(c)
                /\ IF Outcome(c, "create_initial_admin", TRUE)
                   THEN results[c].status = "Failed - No Available IP"
                   ELSE results[c].status = "Failed - Root Admin Creation"

\* the plan's only address went to the first camera and the second ended
\* with the no-address failure status
C19_Witness ==
    /\ Positional
    /\ Len(config_params.ip_list) = 1
    /\ Len(results) >= 2
    /\ Executed(1, "set_final_static_ip")
    /\ results[2].status = "Failed - No Available IP"

\* the canonical form of a written hardware address: separators removed,
\* uppercase
Canon(str) == StrUpper(SelectSeq(str, LAMBDA x : x \notin {":", "-", "."}))

\* the plan entries whose key has the twelve hex digits of camera c
CanonEntriesOf(c) ==
    {j \in 1..Len(config_params.ip_list) :
        Canon(config_params.ip_list[j].key) = Canon(cameras[c].mac)}

\* C20: under a keyed plan a camera that reached step 6 resolves to the
\* address of the plan key with its twelve hex digits, however that key is
\* written (colons, hyphens, dots or no separators, either case), and ends
\* without a match only if no key canonicalizes to its hardware address.
C20_KeyedLookupCanonical ==
    \A c \in 1..MaxCams :
        Executed(c, "determine_final_ip") =>
            IF CanonEntriesOf(c) = {}
            THEN Outcome(c, "determine_final_ip", FALSE)
            ELSE /\ Outcome(c, "determine_final_ip", TRUE)
                 /\ Outcome(c, "set_final_static_ip", TRUE) =>
                       \E j \in CanonEntriesOf(c) :
                           RecordOf(c).final_ip = config_params.ip_list[j].ip

\* ------------------------------------------------------------ cancellation
\* the number of steps executed so far, over all cameras
StepsExecuted ==
    LET F[c \in 0..Len(calls)] == IF c = 0 THEN 0 ELSE F[c - 1] + Len(calls[c])
    IN  F[Len(calls)]

\* C21: once stop() has set the flag no new step begins, neither for the
\* camera being configured nor for a later one; only the call in flight may
\* finish.  A step is one action here, so the first step executed after the
\* flag was set is taken to be the call that was in flight: from any state
\* with the flag set at most one more step is ever executed.
C21_NoStepAfterStop ==
    \A n \in 0..(MaxCams * Len(StepOrder)) :
        [](cw_should_stop /\ StepsExecuted = n => [](StepsExecuted <= n + 1))

\* The cancelled run: the run thread keeps being scheduled until run
\* returns; stop() may come at any time, or never.
RunStep ==
    \/ RunStart
    \/ LoopHead
    \/ CreateInitialAdmin
    \/ CreateSecondaryAdmin
    \/ CreateOnvifUser
    \/ SetWdrOff
    \/ SetReplayProtectionOff
    \/ DetermineFinalIp
    \/ SetFinalStaticIp
    \/ WaitForCameraOnline
    \/ GetCameraMacSerial
    \/ EmitComplete

\* The worker MainWindow.start_camera_configuration constructs and starts
\* (main_window.py 671-793) once its checks pass: discovered cameras, a
\* csv_entries that is not empty, a root password.  admin_user is always
\* 'root' (699); the ONVIF credentials, ip_mode and csv_entries are handed
\* on as they are stored, csv_entries under either mode (716-720), so
\* ip_mode may name the mode the plan is not of.  The attributes read are
\* taken as a caller wrote them: the dialogs of this version do not
\* produce them (get_user_credentials returns no 'secondary_password', which
\* line 704 reads; load_csv calls CSVHandler methods that do not exist and
\* leaves csv_entries empty).
InitCancel ==
    /\ InitManager /\ InitWorker /\ NoCameraOperation /\ NoWait
    /\ \E n \in 1..MaxCams : cameras = DiscoveredCameras(n)
    /\ \E ou \in OnvifUsers, mode \in {"sequential", "mac_specific"} :
           \/ \E plan \in PositionalPlans \ {<<>>} :
                  config_params = ConfigParams("root", ou, mode, plan, "list")
           \/ \E plan \in KeyedPlans \ {<<>>} :
                  config_params = ConfigParams("root", ou, mode, plan, "dict")
    /\ InitRun

SpecCancel == InitCancel /\ [][NextOrch]_vars /\ WF_vars(RunStep)

\* the records are those of exactly the cameras that were begun, in
\* discovery order
BegunRecords ==
    /\ \A c \in 1..Len(cameras) : Started(c) <=> c <= Len(results)
    /\ \A k \in 1..Len(results) :
           /\ results[k].temp_ip = cameras[k].ip
           /\ results[k].mac = cameras[k].mac
           /\ results[k].status # "Processing"

\* run has returned after one configuration_complete.emit(self.results);
\* self.results is not touched after the emit
Completed == wpc = "done" /\ emitted = 1 /\ BegunRecords

RetryCount == 3

\* the body of a response is the set of the phrases the code looks for
\* that occur in it
NoSuchParameter == "No such parameter"
AccountExists == "Account already exist"

Http(status, text) == [kind |-> "http", status |-> status, text |-> text]
Raised(exc) == [kind |-> exc, status |-> 0, text |-> {}]

\* the answers a request may get: success, refused authentication, a
\* server error, and the transport failures
Answers ==
    {Http(200, {}), Http(401, {}), Http(403, {}), Http(500, {}),
     Raised("ConnectionError"), Raised("Timeout")}

\* the answers each method is followed under; the bodies are those the
\* method looks into
AnswersOf(name) ==
    CASE name = "set_replay_protection_off" ->
             Answers \cup {Http(200, {NoSuchParameter}),
                           Http(500, {NoSuchParameter})}
      [] name = "create_secondary_admin" ->
             Answers \cup {Http(500, {AccountExists})}
      [] name = "set_final_static_ip" ->
             {Http(200, {}), Http(401, {}), Http(500, {}), Raised("Timeout")}
      [] name = "get_camera_mac_serial" ->
             {Http(200, text) : text \in SUBSET {"serial", "mac"}}
                 \cup {Http(401, {}), Raised("Timeout")}
      [] OTHER -> Answers

\* a call of the ONVIF device service raised: the phrases of the error text
Fault(text) == [kind |-> "Fault", status |-> 0, text |-> text]

UsernameClash == "UsernameclashException"
UserExists == "User Already Exists"

\* what CreateUsers and SetUser may end in: a normal return, a fault, a
\* fault naming an existing user in either wording, a transport failure
SoapAnswers ==
    {Http(200, {}), Fault({}), Fault({UsernameClash}), Fault({UserExists}),
     Raised("Timeout")}

\* str.lower() on a body or an error text
Lower(text) ==
    {IF ph = AccountExists THEN "account already exist"
     ELSE IF ph = UserExists THEN "user already exists"
     ELSE ph : ph \in text}

\* ------------------------------------------- _subnet_mask_to_prefix_length
\* int(ipaddress.IPv4Address(subnet_mask)) as its 32 binary digits, the
\* most significant first
Bits8(b) == [i \in 1..8 |-> (b \div 2^(8 - i)) % 2]

MaskBits(mask) ==
    Bits8(mask[1]) \o Bits8(mask[2]) \o Bits8(mask[3]) \o Bits8(mask[4])

\* bin(subnet_int).count('1')
CountOnes(bits) == Cardinality({i \in DOMAIN bits : bits[i] = 1})

\* subnet_int + 1, one digit longer
PlusOne(bits) ==
    LET zeros == {i \in DOMAIN bits : bits[i] = 0}
    IN  IF zeros = {}
        THEN <<1>> \o [i \in DOMAIN bits |-> 0]
        ELSE LET k == CHOOSE i \in zeros : \A j \in zeros : j <= i
             IN  <<0>> \o [i \in DOMAIN bits |->
                              IF i < k THEN bits[i] ELSE IF i = k THEN 1 ELSE 0]

\* a & b on digit strings of one length
BitAnd(a, b) == [i \in DOMAIN a |-> a[i] * b[i]]

IsZero(bits) == \A i \in DOMAIN bits : bits[i] = 0

\* the count of one-digits, unless subnet_int & (subnet_int + 1) != 0, which
\* raises ValueError
SubnetMaskToPrefixLength(mask) ==
    LET subnet_int == MaskBits(mask)
    IN  IF ~IsZero(BitAnd(<<0>> \o subnet_int, PlusOne(subnet_int)))
        THEN [raised |-> TRUE, value |-> 0]
        ELSE [raised |-> FALSE, value |-> CountOnes(subnet_int)]

\* the dotted-decimal mask of prefix length n
MaskOctet(n, k) ==
    LET r == n - 8 * (k - 1)
    IN  IF r >= 8 THEN 255 ELSE IF r <= 0 THEN 0 ELSE 256 - 2^(8 - r)

MaskOf(n) == <<MaskOctet(n, 1), MaskOctet(n, 2), MaskOctet(n, 3), MaskOctet(n, 4)>>

NonContiguousMasks ==
    {<<255, 0, 255, 0>>, <<0, 0, 0, 255>>, <<255, 255, 255, 1>>,
     <<0, 255, 255, 255>>, <<255, 255, 0, 255>>, <<0, 0, 0, 1>>}

Masks == {MaskOf(n) : n \in 0..32} \cup NonContiguousMasks

\* ------------------------------------------------------ the retry loop
Ok(r) == r.kind = "http" /\ r.status = 200

\* requests.get / requests.post: the request is on the wire, r is its answer
Sent(endpoint, auth, r) ==
    Append(sent, [endpoint |-> endpoint, auth |-> auth, answer |-> r])

\* return ok, message
Return(ok, message, r) ==
    /\ ret' = [success |-> ok, message |-> message, about |-> r]
    /\ cpc' = "returned"
    /\ UNCHANGED attempt

LastAttemptLate == attempt >= RetryCount

\* not (attempt < self.retry_count - 1)
LastAttempt == attempt >= RetryCount - 1

\* an answer the method takes as a failure: sleep and go round again, or
\* on the last round return the failure
RetryOrReturn(message, r) ==
    IF ~LastAttempt
    THEN /\ attempt' = attempt + 1
         /\ UNCHANGED <<cpc, ret>>
    ELSE Return(FALSE, message, r)

\* the message of a failure: of a response, or of an exception
Failure(r, failed, error) == IF r.kind = "http" THEN failed ELSE error

opFrame == <<dhcpVars, orchVars, waitVars, call, prefix_length, result>>

\* ---------------------------------------------------------------- calls
\* the public methods called with a device address and credentials alone;
\* set_final_static_ip, which also takes the address plan's entry, is
\* CallSetFinalStaticIp
Methods == {"create_initial_admin", "create_secondary_admin",
            "create_onvif_user", "set_wdr_off", "set_replay_protection_off",
            "get_camera_mac_serial"}

\* where the method issues its first request: in its own loop, or in the
\* helper it calls first
Entry(name) ==
    CASE name = "create_onvif_user" -> "_create_onvif_user_via_vapix"
      [] name = "get_camera_mac_serial" -> "_get_camera_serial_number"
      [] OTHER -> name

\* a method is called, up to its first request: the call has issued no
\* request yet; get_camera_mac_serial starts with result = {}
CallMethod(name) ==
    /\ cpc = "idle"
    /\ call' = [NoCall EXCEPT !.name = name]
    /\ cpc' = Entry(name)
    /\ attempt' = 0
    /\ sent' = <<>>
    /\ result' = IF name = "get_camera_mac_serial" THEN {} ELSE result
    /\ UNCHANGED <<dhcpVars, orchVars, waitVars, prefix_length, ret>>

\* set_final_static_ip up to its first request: the check of the address,
\* then _set_ip_using_json_api, which converts the mask before its loop and
\* returns a failure when the conversion raises; set_final_static_ip then
\* goes on to _set_ip_using_param_cgi
CallSetFinalStaticIp(ip, subnet) ==
    /\ cpc = "idle"
    /\ call' = [name |-> "set_final_static_ip", final_ip |-> ip,
                subnet |-> subnet]
    /\ IF ip = <<>>
       THEN /\ Return(FALSE, "No IP address provided in configuration",
                      NoResponse)
            /\ UNCHANGED prefix_length
       ELSE /\ prefix_length' = SubnetMaskToPrefixLength(subnet)
            /\ cpc' = IF prefix_length'.raised
                      THEN "_set_ip_using_param_cgi"
                      ELSE "_set_ip_using_json_api"
            /\ attempt' = 0
            /\ UNCHANGED ret
    /\ sent' = <<>>
    /\ UNCHANGED <<dhcpVars, orchVars, waitVars, result>>

\* ------------------------------------------------- create_initial_admin
\* one round of the loop: the add-user request, without authentication
CreateInitialAdminRequest ==
    /\ cpc = "create_initial_admin"
    /\ \E r \in AnswersOf(call.name) :
         /\ sent' = Sent("pwdgrp.cgi", FALSE, r)
         /\ IF Ok(r)
            THEN Return(TRUE, "Initial admin user 'root' created successfully",
                        r)
            ELSE IF r.kind = "http" /\ r.status \in {401, 403}
            THEN /\ cpc' = "auth_check"
                 /\ UNCHANGED <<attempt, ret>>
            ELSE RetryOrReturn(
                     CASE r.kind = "http" -> "Failed to create user"
                       [] r.kind = "ConnectionError" -> "Connection error"
                       [] OTHER -> "Request timed out", r)
    /\ UNCHANGED opFrame

AuthCheckRequestRefuses ==
    /\ cpc = "auth_check"
    /\ \E r \in AnswersOf(call.name) :
         /\ sent' = Sent("usergroup.cgi", TRUE, r)
         /\ Return(FALSE, "Camera is not in factory-new state", r)
    /\ UNCHANGED opFrame

\* after 401 or 403: the request to usergroup.cgi with the new password
AuthCheckRequest ==
    /\ cpc = "auth_check"
    /\ \E r \in AnswersOf(call.name) :
         /\ sent' = Sent("usergroup.cgi", TRUE, r)
         /\ IF Ok(r)
            THEN Return(TRUE,
                     "Admin user 'root' already exists with matching credentials",
                     r)
            ELSE Return(FALSE,
                     Failure(r, "Camera is not in factory-new state and provided credentials invalid",
                                "Camera is not in factory-new state"), r)
    /\ UNCHANGED opFrame

\* ----------------------------------------------- create_secondary_admin
CreateSecondaryAdminRequest ==
    /\ cpc = "create_secondary_admin"
    /\ \E r \in AnswersOf(call.name) :
         /\ sent' = Sent("pwdgrp.cgi", TRUE, r)
         /\ IF Ok(r)
            THEN Return(TRUE, "Secondary admin user created successfully", r)
            ELSE IF r.kind = "http" /\ "account already exist" \in Lower(r.text)
            THEN Return(TRUE, "Secondary admin user already exists", r)
            ELSE RetryOrReturn(
                     CASE r.kind = "http" -> "Failed to create secondary admin"
                       [] r.kind = "ConnectionError" -> "Connection error"
                       [] OTHER -> "Request timed out", r)
    /\ UNCHANGED opFrame

\* ---------------------------------------------------------- set_wdr_off
SetWdrOffRequest ==
    /\ cpc = "set_wdr_off"
    /\ \E r \in AnswersOf(call.name) :
         /\ sent' = Sent("param.cgi", TRUE, r)
         /\ IF Ok(r)
            THEN Return(TRUE, "WDR turned off successfully", r)
            ELSE RetryOrReturn(Failure(r, "Failed to turn off WDR",
                                          "Error turning off WDR"), r)
    /\ UNCHANGED opFrame

\* -------------------------------------------- set_replay_protection_off
SetReplayProtectionOffRequest ==
    /\ cpc = "set_replay_protection_off"
    /\ \E r \in AnswersOf(call.name) :
         /\ sent' = Sent("param.cgi", TRUE, r)
         /\ IF Ok(r)
            THEN Return(TRUE, "Replay Protection turned off successfully", r)
            ELSE IF r.kind = "http" /\ NoSuchParameter \in r.text
            THEN Return(TRUE,
                     "Replay Protection setting not applicable for this camera model",
                     r)
            ELSE RetryOrReturn(Failure(r, "Failed to turn off Replay Protection",
                                          "Error turning off Replay Protection"), r)
    /\ UNCHANGED opFrame

\* -------------------------------------------------- set_final_static_ip
\* one round of _set_ip_using_json_api's loop; its failure after the last
\* round takes set_final_static_ip on to _set_ip_using_param_cgi
SetIpUsingJsonApiRequest ==
    /\ cpc = "_set_ip_using_json_api"
    /\ \E r \in AnswersOf(call.name) :
         /\ sent' = Sent("network_settings.cgi", TRUE, r)
         /\ IF Ok(r)
            THEN Return(TRUE, "Static IP successfully set", r)
            ELSE IF ~LastAttempt
            THEN /\ attempt' = attempt + 1
                 /\ UNCHANGED <<cpc, ret>>
            ELSE /\ cpc' = "_set_ip_using_param_cgi"
                 /\ attempt' = 0
                 /\ UNCHANGED ret
    /\ UNCHANGED opFrame

\* one round of _set_ip_using_param_cgi's loop
SetIpUsingParamCgiRequest ==
    /\ cpc = "_set_ip_using_param_cgi"
    /\ \E r \in AnswersOf(call.name) :
         /\ sent' = Sent("admin/param.cgi", TRUE, r)
         /\ IF Ok(r)
            THEN Return(TRUE, "Static IP successfully set", r)
            ELSE RetryOrReturn(Failure(r, "Failed to set static IP",
                                   "Error setting static IP via param.cgi"), r)
    /\ UNCHANGED opFrame

\* ---------------------------------------------------- create_onvif_user
\* one round of _create_onvif_user_via_vapix's loop; its failure after the
\* last round takes create_onvif_user on to the ONVIF device service
CreateOnvifUserViaVapixRequest ==
    /\ cpc = "_create_onvif_user_via_vapix"
    /\ \E r \in AnswersOf(call.name) :
         /\ sent' = Sent("pwdgrp.cgi", TRUE, r)
         /\ IF Ok(r)
            THEN Return(TRUE, "ONVIF user created successfully via VAPIX", r)
            ELSE IF ~LastAttempt
            THEN /\ attempt' = attempt + 1
                 /\ UNCHANGED <<cpc, ret>>
            ELSE /\ cpc' = "Client"
                 /\ UNCHANGED <<attempt, ret>>
    /\ UNCHANGED opFrame

\* Transport(...), Client(wsdl, wsse, transport) and the binding address:
\* the client is built, or building it raises (the WSDL is loaded from
\* www.onvif.org, not from the device) and the method returns the failure
OnvifClient ==
    /\ cpc = "Client"
    /\ \E built \in BOOLEAN :
         IF built
         THEN /\ cpc' = "create_onvif_user"
              /\ attempt' = 0
              /\ UNCHANGED ret
         ELSE Return(FALSE, "Unexpected error creating ONVIF user", NoResponse)
    /\ UNCHANGED <<opFrame, sent>>

\* "UsernameclashException" in error_str or
\* "already exists" in error_str.lower()
Clash(r) ==
    r.kind = "Fault"
        /\ (UsernameClash \in r.text \/ "user already exists" \in Lower(r.text))

\* one round of the CreateUsers loop
CreateUsersRequest ==
    /\ cpc = "create_onvif_user"
    /\ \E r \in SoapAnswers :
         /\ sent' = Sent("CreateUsers", TRUE, r)
         /\ IF Ok(r)
            THEN Return(TRUE, "ONVIF user created successfully", r)
            ELSE IF Clash(r)
            THEN /\ cpc' = "SetUser"
                 /\ UNCHANGED <<attempt, ret>>
            ELSE RetryOrReturn("Failed to create ONVIF user", r)
    /\ UNCHANGED opFrame

\* the user exists: SetUser with the new password; success either way
SetUserRequest ==
    /\ cpc = "SetUser"
    /\ \E r \in SoapAnswers :
         /\ sent' = Sent("SetUser", TRUE, r)
         /\ Return(TRUE,
                   IF Ok(r)
                   THEN "ONVIF user already exists, updated password"
                   ELSE "ONVIF user already exists, but could not update password",
                   r)
    /\ UNCHANGED opFrame

\* ------------------------------------------------ get_camera_mac_serial
\* _get_camera_serial_number and _get_camera_mac_address: the position of
\* the request to param.cgi and of the one to basicdeviceinfo.cgi
Helper(key) ==
    IF key = "serial" THEN "_get_camera_serial_number"
    ELSE "_get_camera_mac_address"

HelperInfo(key) ==
    IF key = "serial" THEN "_get_camera_serial_number, basicdeviceinfo"
    ELSE "_get_camera_mac_address, basicdeviceinfo"

\* status 200 and the value found in the body: by the regular expression
\* in a parameter list, by its tag in the device information
Found(key, r) == Ok(r) /\ key \in r.text

\* a helper has returned: result[key] is set when it found the value;
\* after the serial number the hardware address is looked up, after that
\* the method returns (True, result) unless result is empty
HelperReturn(key, found, r) ==
    /\ result' = IF found THEN result \cup {key} ELSE result
    /\ IF key = "serial"
       THEN /\ cpc' = Helper("mac")
            /\ UNCHANGED <<attempt, ret>>
       ELSE Return(result' # {},
                   IF result' # {} THEN ""
                   ELSE "Could not retrieve MAC or serial number", r)

\* the helper's request to param.cgi: an exception ends the helper, an
\* answer without the value takes it on to basicdeviceinfo.cgi
GetCameraParamRequest(key) ==
    /\ cpc = Helper(key)
    /\ \E r \in AnswersOf(call.name) :
         /\ sent' = Sent("param.cgi", TRUE, r)
         /\ IF Found(key, r) \/ r.kind # "http"
            THEN HelperReturn(key, Found(key, r), r)
            ELSE /\ cpc' = HelperInfo(key)
                 /\ UNCHANGED <<attempt, ret, result>>
    /\ UNCHANGED <<dhcpVars, orchVars, waitVars, call, prefix_length>>

\* the helper's request to basicdeviceinfo.cgi
GetCameraInfoRequest(key) ==
    /\ cpc = HelperInfo(key)
    /\ \E r \in AnswersOf(call.name) :
         /\ sent' = Sent("basicdeviceinfo.cgi", TRUE, r)
         /\ HelperReturn(key, Found(key, r), r)
    /\ UNCHANGED <<dhcpVars, orchVars, waitVars, call, prefix_length>>

InitOps ==
    /\ InitManager /\ InitWorker
    /\ NoConfigurationWorker
    /\ NoCameraOperation /\ NoWait

NextOps ==
    \/ \E name \in Methods : CallMethod(name)
    \/ \E ip \in {<<>>, PlanAddress(1)}, subnet \in Masks :
           CallSetFinalStaticIp(ip, subnet)
    \/ CreateInitialAdminRequest
    \/ AuthCheckRequest
    \/ CreateSecondaryAdminRequest
    \/ SetWdrOffRequest
    \/ SetReplayProtectionOffRequest
    \/ SetIpUsingJsonApiRequest
    \/ SetIpUsingParamCgiRequest
    \/ CreateOnvifUserViaVapixRequest
    \/ OnvifClient
    \/ CreateUsersRequest
    \/ SetUserRequest
    \/ \E key \in {"serial", "mac"} : GetCameraParamRequest(key)
    \/ \E key \in {"serial", "mac"} : GetCameraInfoRequest(key)

SpecOps == InitOps /\ [][NextOps]_vars

\* ------------------------------------------------ camera operation claims
Transient(r) == r.kind \in {"ConnectionError", "Timeout"}

AuthRefused(r) == r.kind = "http" /\ r.status \in {401, 403}

Requests == 1..Len(sent)

LastSent == sent[Len(sent)]

RequestsTo(endpoint) == {k \in Requests : sent[k].endpoint = endpoint}

\* the requests of the retry loop that issued the last request
LoopRequests == IF sent = <<>> THEN {} ELSE RequestsTo(LastSent.endpoint)

NoRequestAfterSuccess == \A k \in Requests : Ok(sent[k].answer) => k = Len(sent)

SuccessReturns ==
    (sent # <<>> /\ Ok(LastSent.answer)) =>
        cpc = "returned" /\ ret.success /\ ret.about = LastSent.answer

\* the call is of a method with a retry loop (get_camera_mac_serial has
\* none: each of its helpers sends up to two requests, once)
HasRetryLoop == call.name # "get_camera_mac_serial"

\* C23 as stated: a call with a retry loop issues at most retry_count
\* requests and then returns; a 200 after transient failures returns
\* success; retry_count transient failures return failure with the last
\* error; no request follows a success.
C23_CallWithinRetryCount ==
    HasRetryLoop =>
        /\ Len(sent) <= RetryCount
        /\ NoRequestAfterSuccess
        /\ SuccessReturns
        /\ (Len(sent) = RetryCount /\ \A k \in Requests : Transient(sent[k].answer)) =>
               cpc = "returned" /\ ~ret.success /\ ret.about = LastSent.answer

\* C23, amended: in a call with a retry loop each retry loop issues at most
\* retry_count requests to its endpoint; a 200 ends the call with success
\* and no request follows it; retry_count transient failures in a loop end
\* the loop with the last error, which is returned, except that
\* set_final_static_ip goes on from the JSON loop to the legacy loop and
\* create_onvif_user from the VAPIX loop to the ONVIF device service.  The
\* call issues at most 2 * retry_count + 1 requests: create_initial_admin
\* adds one authenticated request after a 401 or 403, set_final_static_ip
\* runs two loops, create_onvif_user runs two loops and one SetUser.
C23_LoopWithinRetryCount ==
    HasRetryLoop =>
        /\ \A k \in Requests : Cardinality(RequestsTo(sent[k].endpoint)) <= RetryCount
        /\ Cardinality(RequestsTo("usergroup.cgi")) <= 1
        /\ Cardinality(RequestsTo("SetUser")) <= 1
        /\ Len(sent) <= 2 * RetryCount + 1
        /\ NoRequestAfterSuccess
        /\ SuccessReturns
        /\ (/\ Cardinality(LoopRequests) = RetryCount
            /\ \A k \in LoopRequests : Transient(sent[k].answer)) =>
               IF LastSent.endpoint = "network_settings.cgi"
               THEN cpc = "_set_ip_using_param_cgi" /\ attempt = 0
               ELSE IF call.name = "create_onvif_user" /\ LastSent.endpoint = "pwdgrp.cgi"
               THEN \/ cpc = "Client"
                    \/ cpc = "create_onvif_user" /\ attempt = 0
                    \/ cpc = "returned" /\ ~ret.success /\ ret.about = NoResponse
               ELSE cpc = "returned" /\ ~ret.success /\ ret.about = LastSent.answer

\* set_wdr_off: two transient failures, then 200
C23_Witness ==
    /\ call.name = "set_wdr_off"
    /\ Len(sent) = RetryCount
    /\ \A k \in 1..(RetryCount - 1) : Transient(sent[k].answer)
    /\ Ok(LastSent.answer)
    /\ cpc = "returned" /\ ret.success

AuthenticatedCalls == {"create_secondary_admin", "set_wdr_off",
                       "set_replay_protection_off", "set_final_static_ip"}

\* C24: in a call that authenticates, a 401 or 403 answer is the last
\* request of the call, and the call returns failure.
C24_AuthFailureNotRetried ==
    \A k \in Requests :
        (call.name \in AuthenticatedCalls /\ AuthRefused(sent[k].answer)) =>
            /\ k = Len(sent)
            /\ cpc = "returned"
            /\ ~ret.success

\* ------------------------------------------- step 1, request by request
\* The run, handed one camera, in which create_initial_admin is followed
\* request by request; the other steps are their outcomes, as before.
InitRoot ==
    /\ InitManager /\ InitWorker /\ NoCameraOperation /\ NoWait
    /\ cameras = DiscoveredCameras(1)
    /\ config_params = ConfigParams("root", "", "sequential", <<PlanAddress(1)>>,
                                    "list")
    /\ InitRun

\* step 1: self.camera_operations.create_initial_admin(...) is called
RootAdminCall ==
    /\ wpc = "root_admin"
    /\ CallMethod("create_initial_admin")

\* step 1: the returned pair is recorded; a failure ends this camera
RootAdminReturn ==
    /\ wpc = "root_admin"
    /\ cpc = "returned"
    /\ LET rec == Recorded(camera_result, "root_admin", ret)
       IN  /\ calls' = Called("create_initial_admin", ret.success)
           /\ failures' = Failed(ret.success)
           /\ IF ret.success
              THEN /\ camera_result' = rec
                   /\ wpc' = "secondary_admin"
                   /\ UNCHANGED <<results, cam_idx>>
              ELSE Finish(rec, "Failed - Root Admin Creation")
    /\ cpc' = "idle"
    /\ UNCHANGED <<dhcpVars, cameras, config_params, cw_should_stop,
                   sequential_ip_index, final_ip, emitted, call, attempt,
                   prefix_length, result, sent, ret, waitVars>>

NextRoot ==
    \/ RunStart
    \/ LoopHead
    \/ RootAdminCall
    \/ CreateInitialAdminRequest
    \/ AuthCheckRequest
    \/ RootAdminReturn
    \/ CreateSecondaryAdmin
    \/ CreateOnvifUser
    \/ SetWdrOff
    \/ SetReplayProtectionOff
    \/ DetermineFinalIp
    \/ SetFinalStaticIp
    \/ WaitForCameraOnline
    \/ GetCameraMacSerial
    \/ EmitComplete
    \/ StopConfiguration
    \/ AddDiscoveredCamera

SpecRoot == InitRoot /\ [][NextRoot]_vars

\* The same worker, a step of run being one action, with the run thread
\* scheduled until run returns and stop() called at any time, or never:
\* the runs C21 is checked on.
SpecStop == InitRoot /\ [][NextOrch]_vars /\ WF_vars(RunStep)

\* the add-user request without authentication was answered 401 or 403, and
\* the request to usergroup.cgi with the same password was answered 200
AlreadyInitialised ==
    /\ call.name = "create_initial_admin"
    /\ Len(sent) >= 2
    /\ LET add == sent[Len(sent) - 1]
       IN  /\ add.endpoint = "pwdgrp.cgi" /\ ~add.auth
           /\ AuthRefused(add.answer)
    /\ LastSent.endpoint = "usergroup.cgi" /\ LastSent.auth
    /\ Ok(LastSent.answer)

\* the camera whose step 1 was the last to return to the worker
RootCaller ==
    CHOOSE c \in 1..Len(cameras) :
        /\ Executed(c, "create_initial_admin")
        /\ \A d \in (c + 1)..Len(cameras) : ~Executed(d, "create_initial_admin")

AlreadyExistsMessage ==
    "Admin user 'root' already exists with matching credentials"

\* C25: on an already initialised camera create_initial_admin returns
\* success with the already-exists message; the worker records step 1 as a
\* success with that message and goes on to the following steps.
C25_InitialAdminIdempotent ==
    AlreadyInitialised =>
        /\ cpc \in {"returned", "idle"}
        /\ ret.success /\ ret.message = AlreadyExistsMessage
        /\ cpc = "idle" =>
             LET c == RootCaller
             IN  /\ RecordOf(c).operations[1] =
                        [name |-> "root_admin", success |-> TRUE,
                         message |-> AlreadyExistsMessage]
                 /\ RecordOf(c).status # "Failed - Root Admin Creation"
                 /\ \/ /\ c = cam_idx
                       /\ wpc \in {"secondary_admin", "onvif_user", "wdr_off"}
                    \/ Executed(c, "set_wdr_off")

C25_Witness ==
    /\ AlreadyInitialised
    /\ Executed(1, "set_wdr_off")
    /\ Executed(1, "set_final_static_ip")

\* ------------------------------------------------ set_final_static_ip claims
\* a mask of one-digits followed by zero-digits
Contiguous(bits) ==
    \A i \in DOMAIN bits : \A j \in DOMAIN bits :
        (i < j /\ bits[i] = 0) => bits[j] = 0

\* set_final_static_ip was called with an address
StaticIpCalled == call.name = "set_final_static_ip" /\ call.final_ip # <<>>

\* C26: set_final_static_ip given a non-contiguous mask sends no request,
\* neither to network_settings.cgi nor to admin/param.cgi, and fails.
C26_BadMaskNoRequest ==
    (StaticIpCalled /\ ~Contiguous(MaskBits(call.subnet))) =>
        /\ sent = <<>>
        /\ cpc = "returned" => ~ret.success

\* C27: the mask of n one-digits followed by 32 - n zero-digits converts to
\* n, for every n in 0..32, and every other mask is rejected.
C27_MaskToPrefixLength ==
    StaticIpCalled =>
        /\ \A n \in 0..32 :
               call.subnet = MaskOf(n) =>
                   prefix_length = [raised |-> FALSE, value |-> n]
        /\ ~Contiguous(MaskBits(call.subnet)) => prefix_length.raised

LegacyRequests == RequestsTo("admin/param.cgi")

JsonRequests == RequestsTo("network_settings.cgi")

\* C28: with a mask that is one, the first request goes to
\* network_settings.cgi; a request goes to admin/param.cgi only after the
\* requests to network_settings.cgi have failed; the call returns success
\* exactly if some request was answered 200; after a 200 from
\* network_settings.cgi no request goes to admin/param.cgi.
C28_JsonThenLegacy ==
    (StaticIpCalled /\ Contiguous(MaskBits(call.subnet))) =>
        /\ sent # <<>> => sent[1].endpoint = "network_settings.cgi"
        /\ \A k \in LegacyRequests :
               /\ \E j \in JsonRequests : j < k
               /\ \A j \in JsonRequests : j < k /\ ~Ok(sent[j].answer)
        /\ cpc = "returned" =>
               (ret.success <=> \E k \in Requests : Ok(sent[k].answer))

\* C29: a replay-protection update answered 200 with "No such parameter" in
\* the body returns success with the not-applicable message.
C29_AbsentParameterNotApplicable ==
    (/\ call.name = "set_replay_protection_off"
     /\ sent # <<>>
     /\ LastSent.answer = Http(200, {NoSuchParameter})) =>
        /\ cpc = "returned"
        /\ ret.success
        /\ ret.message =
               "Replay Protection setting not applicable for this camera model"

\* ================================================= wait_for_camera_online
\* core/network_utils.py.  One round of the loop is ping_host, then
\* check_port_open if the ping was answered, then the authenticated GET of
\* usergroup.cgi if the port was open; then time.sleep(check_interval) and
\* the new elapsed.  now is time.time().
MaxWait == 3

CheckIntervals == {1, 2}

\* the time the probes of one round may take
ProbeTimes == {0, 1}

WaitAnswers ==
    {Http(200, {}), Http(401, {}), Http(500, {}), Raised("SSLError"),
     Raised("Timeout")}

\* what the device would answer to each probe of one round, were it made
Devices == [ping : BOOLEAN, port : BOOLEAN, answer : WaitAnswers]

ProbeUngated(device) ==
    [ping |-> device.ping,
     port |-> IF device.port THEN "open" ELSE "closed",
     answer |-> IF device.port THEN device.answer ELSE NoResponse]

\* the probes of one round: ping_host, check_port_open inside the test of
\* the ping, requests.get inside the test of the port; a probe not made
\* gave nothing
Probe(device) ==
    [ping |-> device.ping,
     port |-> IF device.ping
              THEN IF device.port THEN "open" ELSE "closed"
              ELSE "none",
     answer |-> IF device.ping /\ device.port
                THEN device.answer
                ELSE NoResponse]

Rounds == {Probe(device) : device \in Devices}

OnlineOnAnyAnswer(round) == round.port = "open" /\ round.answer.kind = "http"

\* the round returns True: status 200, or requests.exceptions.SSLError
Online(round) ==
    round.port = "open" /\ (Ok(round.answer) \/ round.answer.kind = "SSLError")

waitFrame == <<mgrVars, tableVars, sockVars, out, last, threadVars, orchVars,
               opVars>>

\* the call, up to the first test of the loop
CallWaitForCameraOnline(max_wait_time, check_interval) ==
    /\ wtpc = "idle"
    /\ wait_args' = [max_wait_time |-> max_wait_time,
                     check_interval |-> check_interval]
    /\ start_time' = now
    /\ elapsed' = 0
    /\ wtpc' = "loop"
    /\ UNCHANGED <<now, waitFrame, polls, wait_ret>>

\* one round of the loop
WaitRound ==
    /\ wtpc = "loop"
    /\ elapsed < wait_args.max_wait_time
    /\ \E device \in Devices, took \in ProbeTimes :
       LET round == Probe(device) IN
         /\ polls' = Append(polls, [at |-> elapsed, ping |-> round.ping,
                                    port |-> round.port,
                                    answer |-> round.answer,
                                    device |-> device])
         /\ IF Online(round)
            THEN /\ now' = now + took
                 /\ wait_ret' = [reachable |-> TRUE,
                                 elapsed |-> now' - start_time]
                 /\ wtpc' = "returned"
                 /\ UNCHANGED elapsed
            ELSE /\ now' = now + took + wait_args.check_interval
                 /\ elapsed' = now' - start_time
                 /\ UNCHANGED <<wtpc, wait_ret>>
    /\ UNCHANGED <<waitFrame, wait_args, start_time>>

\* the loop test fails: return False, elapsed
WaitExpired ==
    /\ wtpc = "loop"
    /\ ~(elapsed < wait_args.max_wait_time)
    /\ wait_ret' = [reachable |-> FALSE, elapsed |-> elapsed]
    /\ wtpc' = "returned"
    /\ UNCHANGED <<now, waitFrame, wait_args, start_time, elapsed, polls>>

InitWait ==
    /\ InitManager /\ InitWorker
    /\ NoConfigurationWorker /\ NoCameraOperation /\ NoWait

WaitStep == WaitRound \/ WaitExpired

NextWait ==
    \/ \E max_wait_time \in 0..MaxWait, check_interval \in CheckIntervals :
           CallWaitForCameraOnline(max_wait_time, check_interval)
    \/ WaitRound
    \/ WaitExpired

\* the caller's thread keeps running while it is inside the function
SpecWait == InitWait /\ [][NextWait]_vars /\ WF_vars(WaitStep)

\* the authenticated GET of the round was answered 200 or ended in the
\* failure of the TLS negotiation
ProbeAnswered(poll) ==
    \/ poll.answer.kind = "http" /\ poll.answer.status = 200
    \/ poll.answer.kind = "SSLError"

\* C30: the waiter, once called, returns; it returns reachable only from a
\* round whose authenticated GET was answered 200 or ended in an SSL
\* error; it returns unreachable only with elapsed at or past
\* max_wait_time and no such round; and no round begins with elapsed at or
\* past max_wait_time.
C30_WaiterReturns ==
    /\ [](wtpc = "returned" /\ wait_ret.reachable =>
             polls # <<>> /\ ProbeAnswered(polls[Len(polls)]))
    /\ [](wtpc = "returned" /\ ~wait_ret.reachable =>
             /\ wait_ret.elapsed >= wait_args.max_wait_time
             /\ \A k \in 1..Len(polls) : ~ProbeAnswered(polls[k]))
    /\ [](\A k \in 1..Len(polls) : polls[k].at < wait_args.max_wait_time)
    /\ (wtpc = "loop" ~> wtpc = "returned")

\* the deadline passed after rounds that were answered, but not with 200
C30_Witness ==
    /\ wtpc = "returned"
    /\ ~wait_ret.reachable
    /\ Len(polls) >= 2
    /\ \E k \in 1..Len(polls) : polls[k].answer = Http(401, {})

\* the last round's authenticated GET was answered 401
AuthenticationFailed ==
    polls # <<>> /\ polls[Len(polls)].answer = Http(401, {})

\* C31: a call whose last probe was answered 401 does not return the value
\* returned for a device that never answered, (False, elapsed).
C31_AuthFailureDistinct ==
    (wtpc = "returned" /\ AuthenticationFailed) =>
        wait_ret # [reachable |-> FALSE, elapsed |-> wait_ret.elapsed]

\* C40: in every round the port probe is made only after an answered ping
\* and the authenticated GET only after an open port, and a call in which
\* no ping was answered does not return reachable, whatever the device
\* would have answered to the GET.
C40_PingGatesProbes ==
    /\ \A k \in 1..Len(polls) :
           /\ polls[k].port # "none" => polls[k].device.ping
           /\ polls[k].answer # NoResponse =>
                  polls[k].device.ping /\ polls[k].device.port
    /\ (wtpc = "returned" /\ \A k \in 1..Len(polls) : ~polls[k].device.ping)
           => ~wait_ret.reachable

\* the device never answered the ping and would have answered the GET with
\* 200 on an open port in every round; the call returned unreachable
C40_Witness ==
    /\ wtpc = "returned"
    /\ ~wait_ret.reachable
    /\ Len(polls) >= 2
    /\ \A k \in 1..Len(polls) :
           /\ ~polls[k].device.ping
           /\ polls[k].device.port
           /\ polls[k].device.answer = Http(200, {})
           /\ polls[k].port = "none"

\* ------------------------------------------- lease-table claims, continued
\* C33: no OFFER and no ACK is sent while the lease-table mutex is held.
C33_NoSendUnderLock ==
    \A k \in 1..Len(out) : ~out[k].locked

\* C36: a DISCOVER from a hardware address whose lease is active offers
\* the leased address and moves that lease's expiry to now + lease_time.
C36_DiscoverRefreshesExpiry ==
    [][\A e \in leases :
          (last'.op = "discover" /\ last'.mac = e.mac /\ now < e.exp)
          => /\ pending' = Offer(e.ip, e.mac, last'.xid)
             /\ EntriesFor(leases', e.mac) =
                    {[mac |-> e.mac, ip |-> e.ip, exp |-> now + lease_time]}]_vars

\* C37: a REQUEST from a hardware address whose lease has expired is not
\* acknowledged and leaves the lease table as it was.
C37_ExpiredRequestIgnored ==
    [][\A e \in leases :
          (last'.op = "request" /\ last'.mac = e.mac /\ ~(now < e.exp))
          => /\ out' = <<>>
             /\ leases' = leases]_vars

\* ------------------------------------------ orchestrator claims, continued
\* the cameras whose processing has begun
Begun ==
    IF wpc \in {"run", "returned"} THEN {}
    ELSE IF wpc \in {"loop", "emit", "done"} THEN 1..(cam_idx - 1)
    ELSE 1..cam_idx

ExitStatuses ==
    {"Failed - Root Admin Creation", "Failed - No Available IP",
     "Failed - No MAC Match", "Failed - Invalid IP",
     "Failed - IP Configuration", "Failed - Camera Offline After IP Change",
     "Success"}

\* C35: the result list only grows, by one record appended at its end at a
\* time; the k-th record is the k-th discovered camera's, with a final
\* status; and every camera whose processing began and ended has its one
\* record.
C35_ResultsAppendOnly ==
    /\ [][\/ results' = results
          \/ \E rec \in {camera_result'} : results' = Append(results, rec)]_vars
    /\ [](/\ \A k \in 1..Len(results) :
                /\ k <= Len(cameras)
                /\ results[k].temp_ip = cameras[k].ip
                /\ results[k].mac = cameras[k].mac
                /\ results[k].status \in ExitStatuses
           /\ (wpc \in {"loop", "emit", "done"} =>
                  Len(results) = Cardinality(Begun))
           /\ (wpc \notin {"run", "returned", "loop", "emit", "done"} =>
                  Len(results) = Cardinality(Begun) - 1))

\* the run ended with a record per camera, one left on a failure path and
\* one on the success path
C35_Witness ==
    /\ wpc = "done"
    /\ Len(results) = MaxCams
    /\ results[1].status = "Failed - IP Configuration"
    /\ results[Len(results)].status = "Success"

\* C38: set_final_static_ip is called only with a final address that
\* validate_ip_address accepts.
C38_RejectedAddressNotSet ==
    [][(wpc = "set_static_ip" /\ wpc' # "set_static_ip")
          => ValidateIpAddress(final_ip).val[1]]_vars

\* the plan position device c was handed: the number of devices up to c
\* whose step 6 determined an address
HandedIndex(c) ==
    Cardinality({d \in 1..c :
                    \E j \in 1..Len(calls[d]) :
                        calls[d][j] = [op |-> "determine_final_ip", ok |-> TRUE]})

Handed(c) ==
    \E j \in 1..Len(calls[c]) :
        calls[c][j] = [op |-> "determine_final_ip", ok |-> TRUE]

\* C39: in sequential mode the plan counter changes only in step 6, by
\* exactly one, together with the handing of the plan entry it pointed to;
\* the address of every device, whether stored in its record or still in
\* hand, is the plan entry at the count of addresses handed out so far, so
\* no two devices hold the same address of a duplicate-free plan.
C39_PositionalAddressesDistinct ==
    /\ [][config_params.ip_mode = "sequential" =>
            (\/ sequential_ip_index' = sequential_ip_index
             \/ /\ wpc = "determine_ip"
                /\ sequential_ip_index' = sequential_ip_index + 1
                /\ final_ip' = config_params.ip_list[sequential_ip_index + 1])]_vars
    /\ []((config_params.ip_mode = "sequential" /\ wpc \notin {"run", "returned"}) =>
            /\ sequential_ip_index <= Len(config_params.ip_list)
            /\ sequential_ip_index = HandedIndex(Len(cameras))
            /\ \A c \in 1..Len(cameras) :
                   /\ (c <= Len(results) /\ results[c].final_ip # PyNone) =>
                          /\ Handed(c)
                          /\ results[c].final_ip =
                                 config_params.ip_list[HandedIndex(c)]
                   /\ (c = cam_idx /\ Handed(c) /\ c > Len(results)) =>
                          final_ip = config_params.ip_list[HandedIndex(c)]
            /\ \A c \in 1..Len(cameras), d \in 1..Len(cameras) :
                   (c < d /\ Handed(c) /\ Handed(d)) =>
                       /\ HandedIndex(c) < HandedIndex(d)
                       /\ config_params.ip_list[HandedIndex(c)] #
                              config_params.ip_list[HandedIndex(d)])

\* the first device was handed the first address and failed at step 7; the
\* second device holds the second address
C39_Witness ==
    /\ config_params.ip_mode = "sequential"
    /\ Len(config_params.ip_list) >= 2
    /\ Len(results) >= 2
    /\ results[1].status = "Failed - IP Configuration"
    /\ results[2].final_ip = config_params.ip_list[2]
    /\ results[2].status = "Success"

\* ======================================================= camera discovery
\* core/camera_discovery.py, CameraDiscovery.check_device.  call is the call
\* in progress with the candidate's behaviour, sent the probes made so far
\* in order, ret the returned value.
\* a response to requests.head: the status and the words found in the
\* lowercased Server, WWW-Authenticate and Location headers
HeadResponse(status, server, www_authenticate, location) ==
    [kind |-> "http", status |-> status, server |-> server,
     www_authenticate |-> www_authenticate, location |-> location]

RequestException ==
    [kind |-> "RequestException", status |-> 0, server |-> {},
     www_authenticate |-> {}, location |-> {}]

HeadAnswers ==
    {RequestException,
     HeadResponse(200, {"axis"}, {}, {}),
     HeadResponse(401, {}, {"digest", "realm"}, {}),
     HeadResponse(401, {}, {"basic", "realm"}, {}),
     HeadResponse(302, {}, {}, {"index.html"}),
     HeadResponse(200, {}, {}, {})}

\* the GET of "/": an exception, or the phrases found in the body
GetAnswers ==
    {Raised("RequestException"), Http(200, {"axis camera"}), Http(200, {})}

\* sock.connect_ex((ip, 80)): 0, an error number, or socket.error raised
ConnectAnswers == {"open", "refused", "error"}

Endpoints == <<"/axis-cgi/usergroup.cgi", "/axis-cgi/basicdeviceinfo.cgi", "/">>

\* what a candidate answers to each probe, were it made
Candidates ==
    [ping : BOOLEAN, heads : [1..Len(Endpoints) -> HeadAnswers],
     get : GetAnswers, connect : ConnectAnswers]

\* the tests of one HEAD response in _check_axis_specific
AxisHead(r) ==
    /\ r.kind = "http"
    /\ \/ "axis" \in r.server
       \/ /\ r.status = 401
          /\ "digest" \in r.www_authenticate
          /\ ("axis" \in r.www_authenticate \/ "realm" \in r.www_authenticate)
       \/ /\ r.status \in {301, 302}
          /\ ("index.html" \in r.location \/ "axis" \in r.location)

\* the test of the body of the GET
AxisContent(r) ==
    /\ r.kind = "http"
    /\ r.text \cap {"axis communications", "axis camera",
                    "axis network camera"} # {}

Probed(probe, target, answer) ==
    Append(sent, [probe |-> probe, target |-> target, answer |-> answer])

\* return value
ReturnBool(value) ==
    /\ ret' = [NoReturn EXCEPT !.success = value]
    /\ cpc' = "returned"

discoveryFrame == <<dhcpVars, orchVars, waitVars, prefix_length, result>>

CallCheckDevice(device) ==
    /\ cpc = "idle"
    /\ call' = [name |-> "check_device", final_ip |-> <<>>, subnet |-> <<>>,
                device |-> device]
    /\ cpc' = "_check_ping"
    /\ UNCHANGED <<discoveryFrame, attempt, sent, ret>>

\* A ping that ends the check when it is not answered.
CheckPingGates ==
    /\ cpc = "_check_ping"
    /\ sent' = Probed("ping", "", call.device.ping)
    /\ attempt' = 0
    /\ IF call.device.ping
       THEN cpc' = "_check_axis_specific" /\ UNCHANGED ret
       ELSE ReturnBool(FALSE)
    /\ UNCHANGED <<discoveryFrame, call>>

\* is_pingable = self._check_ping(ip); the checks go on either way
CheckPing ==
    /\ cpc = "_check_ping"
    /\ sent' = Probed("ping", "", call.device.ping)
    /\ attempt' = 0
    /\ cpc' = "_check_axis_specific"
    /\ UNCHANGED <<discoveryFrame, call, ret>>

\* _check_axis_specific, one round of the loop over the endpoints
CheckAxisHead ==
    /\ cpc = "_check_axis_specific"
    /\ LET r == call.device.heads[attempt + 1] IN
         /\ sent' = Probed("head", Endpoints[attempt + 1], r)
         /\ IF AxisHead(r)
            THEN ReturnBool(TRUE) /\ UNCHANGED attempt
            ELSE IF attempt + 1 < Len(Endpoints)
            THEN attempt' = attempt + 1 /\ UNCHANGED <<cpc, ret>>
            ELSE cpc' = "get" /\ UNCHANGED <<attempt, ret>>
    /\ UNCHANGED <<discoveryFrame, call>>

\* _check_axis_specific, the GET of "/" after the loop; when it does not
\* identify the device check_device goes on to _check_http_connection
CheckAxisGet ==
    /\ cpc = "get"
    /\ sent' = Probed("get", "/", call.device.get)
    /\ IF AxisContent(call.device.get)
       THEN ReturnBool(TRUE)
       ELSE cpc' = "_check_http_connection" /\ UNCHANGED ret
    /\ UNCHANGED <<discoveryFrame, call, attempt>>

\* _check_http_connection: connect_ex to port 80 and, when it gave 0, a
\* HEAD of "/" whose outcome is not read
CheckHttpConnection ==
    /\ cpc = "_check_http_connection"
    /\ LET connected == Probed("connect", "80", call.device.connect) IN
         IF call.device.connect = "open"
         THEN /\ sent' = Append(connected,
                             [probe |-> "head", target |-> "/",
                              answer |-> call.device.heads[Len(Endpoints)]])
              /\ ReturnBool(TRUE)
         ELSE /\ sent' = connected
              /\ ReturnBool(FALSE)
    /\ UNCHANGED <<discoveryFrame, call, attempt>>

InitDiscovery ==
    /\ InitManager /\ InitWorker
    /\ NoConfigurationWorker /\ NoCameraOperation /\ NoWait

NextDiscovery ==
    \/ \E device \in Candidates : CallCheckDevice(device)
    \/ CheckPing
    \/ CheckAxisHead
    \/ CheckAxisGet
    \/ CheckHttpConnection

SpecDiscovery == InitDiscovery /\ [][NextDiscovery]_vars

\* the candidate's answers to the HTTP and TCP probes
HttpBehaviour(device) ==
    [heads |-> device.heads, get |-> device.get, connect |-> device.connect]

\* the device is identified by its HTTP answers
IdentifiedAxis(b) ==
    \/ \E k \in 1..Len(Endpoints) : AxisHead(b.heads[k])
    \/ AxisContent(b.get)

ProbesMade(kind) == {k \in 1..Len(sent) : sent[k].probe = kind}

\* C32: the value check_device returns is a function of the candidate's
\* HTTP and TCP answers alone, the same whether the ping was answered or
\* not; the HTTP check is made in every call and the TCP check in every
\* call the HTTP check did not identify.
C32_PingDoesNotGate ==
    (call.name = "check_device" /\ cpc = "returned") =>
        LET b == HttpBehaviour(call.device) IN
        /\ ret.success = (IdentifiedAxis(b) \/ b.connect = "open")
        /\ ProbesMade("head") # {}
        /\ ProbesMade("connect") # {} <=> ~IdentifiedAxis(b)

\* a candidate that did not answer the ping was identified by its HTTP
\* answers, and another by its open port
C32_Witness ==
    /\ call.name = "check_device"
    /\ cpc = "returned"
    /\ ~call.device.ping
    /\ ret.success
    /\ ProbesMade("connect") # {}

\* ============================================================ plan loader
\* core/csv_handler.py, CSVHandler.read_ip_list on a file with the columns
\* FinalIPAddress and MACAddress.  A row is the pair of its two cells, an
\* address as its octets and a hardware address as its characters; an
\* empty cell is the empty string.
MaxRows == 2        \* a plan file holds at most MaxRows rows

\* ipaddress.IPv4Address(ip) does not raise
IpValid(ip) == Len(ip) = 4 /\ \A k \in 1..4 : ip[k] \in 0..255

MacSeparators == {":", "-", "."}

\* _validate_mac_format: six pairs joined by colons, or by hyphens, or
\* twelve alphanumeric characters
ValidateMacFormat(mac) ==
    \/ Len(mac) = 17 /\ \A k \in {3, 6, 9, 12, 15} : mac[k] = ":"
    \/ Len(mac) = 17 /\ \A k \in {3, 6, 9, 12, 15} : mac[k] = "-"
    \/ Len(mac) = 12 /\ \A k \in 1..12 : mac[k] \notin MacSeparators

\* _is_valid_mac: twelve hex digits once the delimiters are removed, and
\* neither all zeros nor all F
IsValidMac(mac) ==
    LET clean_mac == StrUpper(StrRemove(StrRemove(StrRemove(mac, ":"), "-"), "."))
    IN  /\ Len(clean_mac) = 12
        /\ \A k \in 1..Len(clean_mac) : \E h \in 1..16 : UpperHex[h] = clean_mac[k]
        /\ clean_mac # [k \in 1..12 |-> "0"]
        /\ clean_mac # [k \in 1..12 |-> "F"]

\* _find_duplicates: the items met a second time
FindDuplicates(items) ==
    {items[j] : j \in {j \in 1..Len(items) : \E i \in 1..(j - 1) : items[i] = items[j]}}

\* the loop over the rows: a row with a missing or invalid cell is skipped;
\* a kept row is appended with its hardware address uppercased
KeptRow(row) ==
    /\ row.ip # <<>>
    /\ IpValid(row.ip)
    /\ row.mac # <<>>
    /\ ValidateMacFormat(row.mac)

ReadRows(rows) ==
    LET kept == SelectSeq(rows, KeptRow)
    IN  [k \in 1..Len(kept) |-> [ip |-> kept[k].ip, mac |-> StrUpper(kept[k].mac)]]

ValueError(message) == [raised |-> TRUE, error |-> message, value |-> <<>>]

\* read_ip_list: the rows read, then the checks on the list
ReadIpList(rows) ==
    LET read == ReadRows(rows)
        ips == [k \in 1..Len(read) |-> read[k].ip]
        macs == [k \in 1..Len(read) |-> read[k].mac]
    IN  IF read = <<>>
        THEN ValueError("No valid IP assignments found in the CSV file")
        ELSE IF FindDuplicates(ips) # {}
        THEN ValueError("Duplicate IP addresses found in CSV")
        ELSE IF FindDuplicates(macs) # {}
        THEN ValueError("Duplicate MAC addresses found in CSV")
        ELSE IF \E k \in 1..Len(read) : ~IsValidMac(read[k].mac)
        THEN ValueError("Invalid MAC address format")
        ELSE [raised |-> FALSE, error |-> "", value |-> read]

\* the cells a file may hold: two plan addresses, a number that is no
\* address, and the hardware addresses of two devices in written forms
RowIps == {PlanAddress(1), PlanAddress(2), <<10, 0, 0, 256>>, <<>>}

RowMacs ==
    {PlanKey(1, sep, upper) : sep \in Separators, upper \in BOOLEAN}
    \cup {PlanKey(2, <<>>, TRUE), PlanKey(2, <<":">>, FALSE), <<>>}

PlanFiles ==
    UNION {[1..n -> [ip : RowIps, mac : RowMacs]] : n \in 0..MaxRows}

CallReadIpList(rows) ==
    /\ cpc = "idle"
    /\ call' = [name |-> "read_ip_list", final_ip |-> <<>>, subnet |-> <<>>,
                rows |-> rows]
    /\ LET r == ReadIpList(rows) IN
         ret' = [success |-> ~r.raised, message |-> r.error,
                 about |-> NoResponse, value |-> r.value]
    /\ cpc' = "returned"
    /\ UNCHANGED <<dhcpVars, orchVars, waitVars, prefix_length, result, attempt, sent>>

InitLoader ==
    /\ InitManager /\ InitWorker
    /\ NoConfigurationWorker /\ NoCameraOperation /\ NoWait

NextLoader == \E rows \in PlanFiles : CallReadIpList(rows)

SpecLoader == InitLoader /\ [][NextLoader]_vars

\* uppercased, separators removed
Canonical(mac) ==
    StrUpper(StrRemove(StrRemove(StrRemove(mac, ":"), "-"), "."))

\* C34: a load in which two kept rows carry the same address, or hardware
\* addresses that canonicalise to the same one, ends in a duplicate error;
\* a plan that loads has keys that canonicalise to pairwise distinct
\* hardware addresses.
C34_LoadedKeysDistinct ==
    (call.name = "read_ip_list" /\ cpc = "returned") =>
        LET kept == SelectSeq(call.rows, KeptRow) IN
        /\ (\E i \in 1..Len(kept), j \in 1..Len(kept) :
               /\ i # j
               /\ \/ kept[i].ip = kept[j].ip
                  \/ Canonical(kept[i].mac) = Canonical(kept[j].mac))
             => /\ ~ret.success
                /\ ret.message \in {"Duplicate IP addresses found in CSV",
                                    "Duplicate MAC addresses found in CSV"}
        /\ ret.success =>
               \A i \in 1..Len(ret.value), j \in 1..Len(ret.value) :
                   i # j => Canonical(ret.value[i].mac) #
                                Canonical(ret.value[j].mac)

====
